---- MODULE Spec2Model ----
(***************************************************************************)
(* Branch-aware incremental indexing of a git working copy into a vector   *)
(* store (internal/vectorstore, internal/gateway, internal/server).        *)
(*                                                                         *)
(* Strings are modelled as sequences of tokens, so that the string         *)
(* conversions of the code (SanitizeBranchName, the "#chunkN" suffix,      *)
(* strings.Split(filePath, "#")[0], extractChunkIndex) are computed and    *)
(* not assumed.  A file content is a number; ChunkFile maps it to the      *)
(* chunk indexes the chunker returns for it.                               *)
(*                                                                         *)
(* The match of the store on base_path is taken as equality.  Requests     *)
(* name branches git knows.  The index the gateway makes of the current    *)
(* branch when it starts (performIndexing) is the run handleReindexRepo    *)
(* starts.  Files over 500000 bytes, which every run skips, are left out.  *)
(*                                                                         *)
(* The chunker is also modelled on texts, with the sizes of the code: a    *)
(* text is the sequence of its lines, a line its length, its length once   *)
(* trimmed and whether it starts a top-level declaration.  A query of a    *)
(* collection is one call of SearchWithAggregation for a question without  *)
(* keywords; hashes (chunk ids) are taken as the text they are made from.  *)
(*                                                                         *)
(* The outer loop of chunkByLines, the worker pool of indexFilesParallel   *)
(* (jobs channel, worker goroutines, WaitGroup), the scanner loop with a   *)
(* live ticker and the CostTracker of pkg/telemetry (money in 1/10000 of   *)
(* a dollar) each have a specification of their own, with the fairness     *)
(* the Go scheduler gives to a goroutine that can run.                     *)
(***************************************************************************)
EXTENDS Integers, Sequences, FiniteSets, TLC

\* ------------------------------------------------------------------ bounds
\* events from outside over a behaviour: commits, checkouts, requests to
\* index, calls that fail (embedding, upsert, delete, read, save)
MaxEvents == 3
\* distinct file contents: odd ones are small files of one chunk, even ones
\* are cut into two chunks
MaxContent == 2

\* ---------------------------------------------------------------- strings
RepoName == "repo"

Main == <<"main">>
Feature == <<"feature", "/", "x">>

GitBranches == {Main, Feature}

\* names a branch and a repository may also have, which meet the names above
\* once "/" is "-"
FeatureDash == <<"feature", "-", "x">>
XMain == <<"x", "/", "main">>
BranchNames == GitBranches \cup {FeatureDash, XMain}
RepoNames == {<<RepoName>>, <<RepoName, "-", "x">>}

PathA == <<"a.go">>
PathC == <<"c", "#", "x.go">>
Paths == {PathA, PathC}

\* a path with the text "#chunk" in the name of a directory
PathD == <<"d", "#", "chunk", "1", "/", "x.go">>
RepoPaths == Paths \cup {PathD}

Absent == 0
Contents == 1..MaxContent

Digits == <<"0", "1", "2", "3", "4", "5", "6", "7", "8", "9">>

\* fmt.Sprintf("%d", i) for 0 <= i <= 9
FormatInt(i) == Digits[i + 1]

\* the %d of fmt.Sscanf: the number a token spells, -1 when it spells none
ScanInt(tok) ==
    IF \E i \in 1..Len(Digits) : Digits[i] = tok
    THEN (CHOOSE i \in 1..Len(Digits) : Digits[i] = tok) - 1
    ELSE -1

\* position of the first token equal to tok in s, 0 when there is none
IndexOf(s, tok) ==
    IF \E i \in 1..Len(s) : s[i] = tok
    THEN CHOOSE i \in 1..Len(s) : s[i] = tok /\ \A j \in 1..(i - 1) : s[j] # tok
    ELSE 0

\* strings.Index(filePath, "#chunk"), 1-based; 0 when the text does not occur
IndexChunkMarker(s) ==
    IF \E i \in 1..(Len(s) - 1) : s[i] = "#" /\ s[i + 1] = "chunk"
    THEN CHOOSE i \in 1..(Len(s) - 1) :
            /\ s[i] = "#" /\ s[i + 1] = "chunk"
            /\ \A j \in 1..(i - 1) : ~(s[j] = "#" /\ s[j + 1] = "chunk")
    ELSE 0

SanitizeBranchName(branch) ==
    [i \in 1..Len(branch) |->
        IF branch[i] \in {"/", "\\", ":"} THEN "-" ELSE branch[i]]

GetMetadataPath(branch) ==
    <<".mesh", RepoName>> \o SanitizeBranchName(branch) \o <<"metadata.json">>

\* fmt.Sprintf("mesh-%s-%s-v1", repoName, safeBranch)
collectionName(repoName, branch) ==
    <<"mesh", "-">> \o repoName \o <<"-">> \o SanitizeBranchName(branch)
        \o <<"-", "v1">>

\* the collection of a branch of the configured repository
CollectionName(branch) == collectionName(<<RepoName>>, branch)

\* filetypes.IsCodeFile: the extension of the last path element is registered
isCodeFile(path) == path[Len(path)] \in {"a.go", "x.go"}

\* fmt.Sprintf("%s#chunk%d", relPath, chunk.ChunkIndex)
ChunkPath(relPath, chunkIndex) == relPath \o <<"#", "chunk", FormatInt(chunkIndex)>>

\* --------------------------------------------------------------- chunker
NumChunks(content) == 2 - (content % 2)

\* ChunkFile(relPath, content, language): one whole-file chunk with
\* ChunkIndex 0 for a small file, else the chunks of the splitter, numbered
\* from 0.  The text of chunk i of content c is the pair (c, i).
ChunkFile(content) ==
    [i \in 1..NumChunks(content) |->
        [ChunkIndex |-> i - 1, Content |-> [ver |-> content, part |-> i - 1]]]

\* ----------------------------------------------------- chunker, on texts
\* A text is the sequence of its lines, as strings.Split(content, "\n") gives
\* them; the empty text has one empty line.  A line is known by its length,
\* by its length after strings.TrimSpace and by whether it starts, once
\* trimmed, with one of the top-level words of the language of its file.

\* the most lines a text has
MaxLines == 3

MaxTokensPerChunk == 3500
OverlapTokens == 250
MaxTokensWholeFile == 3200
CharsPerTokenEstimate == 4
minChunkChars == 500

Languages == {"go", "typescript", "text"}

LineKinds ==
    {[Len |-> 0, Trim |-> 0, TopLevel |-> FALSE],
     [Len |-> 5, Trim |-> 5, TopLevel |-> FALSE],
     [Len |-> 9, Trim |-> 9, TopLevel |-> TRUE],
     [Len |-> 600, Trim |-> 600, TopLevel |-> FALSE],
     [Len |-> 7000, Trim |-> 3, TopLevel |-> FALSE],
     [Len |-> 7000, Trim |-> 7000, TopLevel |-> FALSE],
     [Len |-> 12800, Trim |-> 12800, TopLevel |-> FALSE],
     [Len |-> 30000, Trim |-> 30000, TopLevel |-> TRUE]}

FileTexts == UNION {[1..n -> LineKinds] : n \in 1..MaxLines}

\* len(content)
TextChars(lines) ==
    LET RECURSIVE Sum(_)
        Sum(i) == IF i > Len(lines) THEN 0 ELSE lines[i].Len + Sum(i + 1)
    IN  Sum(1) + Len(lines) - 1

\* the length of the lines of numbers idxs, each followed by "\n"
BlockChars(lines, idxs) ==
    LET RECURSIVE Sum(_)
        Sum(i) == IF i > Len(idxs) THEN 0 ELSE lines[idxs[i]].Len + 1 + Sum(i + 1)
    IN  Sum(1)

\* a count that takes every character for a token
estimateTokensPerChar(n) == n

\* estimateTokens of a text of n characters: int(math.Ceil(n / 4.0))
estimateTokens(n) == (n + CharsPerTokenEstimate - 1) \div CharsPerTokenEstimate

charsForTokens(tokens) == tokens * CharsPerTokenEstimate

countLines(lines) == Len(lines)

\* generateChunkID: the hash of "path:start:end", taken as the key itself
generateChunkID(filePath, startLine, endLine) == <<filePath, startLine, endLine>>

\* the content of a chunk: the lines it is made of, what separates them
\* ("between": the text itself, "after": each line followed by "\n",
\* "none": the characters From .. From + Chars - 1 of one line)
WholeContent(lines) ==
    [Lines |-> [i \in 1..Len(lines) |-> i], Sep |-> "between", From |-> 0,
     Chars |-> TextChars(lines)]

BlockContent(lines, idxs) ==
    [Lines |-> idxs, Sep |-> "after", From |-> 0, Chars |-> BlockChars(lines, idxs)]

PartContent(k, from, to) ==
    [Lines |-> <<k>>, Sep |-> "none", From |-> from, Chars |-> to - from]

\* getOverlapLines(lines, fromIndex, numChars): the numbers of the lines
\* collected, in the order of the text; fromIndex counts from 0
getOverlapLines(lines, fromIndex, numChars) ==
    LET RECURSIVE Collect(_, _, _)
        Collect(k, collected, charsCollected) ==
            IF k >= 1 /\ charsCollected < numChars
            THEN Collect(k - 1, <<k>> \o collected, charsCollected + lines[k].Len + 1)
            ELSE collected
    IN  IF fromIndex <= 0 THEN <<>> ELSE Collect(fromIndex, <<>>, 0)

\* chunkGoCode, lines 87-155; i counts the lines from 0 as the code does
chunkGoCode(lines, maxSize, overlap) ==
    LET mk(cur, chunkIndex, chunkStartLine, endLine) ==
            [Content |-> BlockContent(lines, cur), ChunkIndex |-> chunkIndex,
             StartLine |-> chunkStartLine, EndLine |-> endLine]
        RECURSIVE Loop(_, _, _, _, _)
        Loop(i, cur, chunkStartLine, chunkIndex, chunks) ==
            IF i >= Len(lines)
            THEN IF cur # <<>>
                 THEN Append(chunks, mk(cur, chunkIndex, chunkStartLine, i))
                 ELSE chunks
            ELSE
            LET line == lines[i + 1]
                curLen == BlockChars(lines, cur)
                willExceed == curLen + line.Len + 1 > maxSize
                hardLimit == curLen >= maxSize
                shouldSplit == (willExceed /\ line.TopLevel) \/ hardLimit
                overlapLines == getOverlapLines(lines, i, overlap)
                newStart == IF i - Len(overlapLines) < 1 THEN 1
                            ELSE i - Len(overlapLines)
            IN  IF shouldSplit /\ curLen > 0
                THEN Loop(i + 1, Append(overlapLines, i + 1), newStart,
                          chunkIndex + 1,
                          Append(chunks, mk(cur, chunkIndex, chunkStartLine, i)))
                ELSE Loop(i + 1, Append(cur, i + 1), chunkStartLine, chunkIndex,
                          chunks)
    IN  Loop(0, <<>>, 1, 0, <<>>)

\* chunkTSCode, lines 158-220: the loop of chunkGoCode with the top-level
\* words of TypeScript, which TopLevel stands for in a TypeScript file
chunkTSCode(lines, maxSize, overlap) == chunkGoCode(lines, maxSize, overlap)

\* a back-step that goes back to the first line of the window it ends
backtrackToWindowStart(i, startLine, overlapLines, n) ==
    IF overlapLines > 0 /\ i < n
    THEN IF i - overlapLines < startLine - 1 THEN startLine - 1
         ELSE i - overlapLines
    ELSE i

\* the back-step for the overlap at the end of a window of chunkByLines,
\* lines 283-290: where the next window starts, counted from 0
backtrack(i, startLine, overlapLines, n) ==
    IF overlapLines > 0 /\ i < n
    THEN IF i - overlapLines < startLine THEN startLine
         ELSE i - overlapLines
    ELSE i

\* one turn of the outer loop of chunkByLines, lines 229-294, from line i
\* (counted from 0 as the code does): the chunks it appends and the line the
\* next turn starts at
chunkByLinesWindow(lines, i, chunkIndex, maxSize, overlap) ==
    LET n == Len(lines)
        \* the pieces of a line longer than maxSize
        RECURSIVE Pieces(_, _, _, _)
        Pieces(k, j, index, chunks) ==
            IF j >= lines[k].Len THEN chunks
            ELSE LET end == IF j + maxSize > lines[k].Len THEN lines[k].Len
                            ELSE j + maxSize
                 IN  Pieces(k, j + maxSize, index + 1,
                            Append(chunks,
                                   [Content |-> PartContent(k, j, end),
                                    ChunkIndex |-> index,
                                    StartLine |-> k, EndLine |-> k]))
        \* the lines taken into one chunk from line i on: where the loop stops
        RECURSIVE Take(_, _)
        Take(k, cur) ==
            IF k >= n THEN [i |-> k, cur |-> cur]
            ELSE LET line == lines[k + 1]
                     curLen == BlockChars(lines, cur)
                 IN  IF line.Len > maxSize /\ curLen = 0
                     THEN [i |-> k, cur |-> cur]
                     ELSE IF curLen > 0 /\ curLen + line.Len + 1 > maxSize
                     THEN [i |-> k, cur |-> cur]
                     ELSE IF curLen >= maxSize
                     THEN [i |-> k, cur |-> cur]
                     ELSE Take(k + 1, Append(cur, k + 1))
        startLine == i + 1
        t == Take(i, <<>>)
    IN  IF lines[i + 1].Len > maxSize
        THEN [i |-> i + 1, chunks |-> Pieces(i + 1, 0, chunkIndex, <<>>)]
        ELSE [i |-> backtrack(t.i, startLine, overlap \div 50, n),
              chunks |-> <<[Content |-> BlockContent(lines, t.cur),
                            ChunkIndex |-> chunkIndex,
                            StartLine |-> startLine, EndLine |-> t.i]>>]

\* chunkByLines, lines 224-299: the turns of its loop, one after the other
chunkByLines(lines, maxSize, overlap) ==
    LET RECURSIVE Outer(_, _, _)
        Outer(i, chunkIndex, chunks) ==
            IF i >= Len(lines) THEN chunks
            ELSE LET w == chunkByLinesWindow(lines, i, chunkIndex, maxSize, overlap)
                 IN  Outer(w.i, chunkIndex + Len(w.chunks), chunks \o w.chunks)
    IN  Outer(0, 0, <<>>)

\* ChunkFile(filePath, content, language) of the chunker, on a text
ChunkFileText(filePath, content, language) ==
    LET maxChunkChars == charsForTokens(MaxTokensPerChunk)
        overlapChars == charsForTokens(OverlapTokens)
        fileTokens == estimateTokens(TextChars(content))
        chunks == IF language = "go"
                  THEN chunkGoCode(content, maxChunkChars, overlapChars)
                  ELSE IF language \in {"typescript", "javascript"}
                  THEN chunkTSCode(content, maxChunkChars, overlapChars)
                  ELSE chunkByLines(content, maxChunkChars, overlapChars)
        withID(chunk) ==
            [Content |-> chunk.Content, ChunkIndex |-> chunk.ChunkIndex,
             StartLine |-> chunk.StartLine, EndLine |-> chunk.EndLine,
             ChunkID |-> generateChunkID(filePath, chunk.StartLine, chunk.EndLine)]
    IN  IF fileTokens <= MaxTokensWholeFile
        THEN <<withID([Content |-> WholeContent(content), ChunkIndex |-> 0,
                       StartLine |-> 1, EndLine |-> countLines(content)])>>
        ELSE LET kept == SelectSeq(chunks, LAMBDA c : c.Content.Chars >= minChunkChars)
             IN  [i \in 1..Len(kept) |-> withID(kept[i])]

\* ------------------------------------------------------------ vector store
\* strings.Split(filePath, "#")[0]
SplitBasePath(filePath) ==
    IF IndexOf(filePath, "#") = 0
    THEN filePath
    ELSE SubSeq(filePath, 1, IndexOf(filePath, "#") - 1)

extractChunkIndex(filePath) ==
    LET idx == IndexChunkMarker(filePath)
    IN  IF idx = 0 THEN 0
        ELSE IF Len(filePath) >= idx + 2 /\ ScanInt(filePath[idx + 2]) >= 0
             THEN ScanInt(filePath[idx + 2])
             ELSE 0

extractBasePath(filePath) ==
    LET idx == IndexChunkMarker(filePath)
    IN  IF idx > 1 THEN SubSeq(filePath, 1, idx - 1) ELSE filePath

\* filepath.Ext(path): the text of the last path element from its last dot
\* on; of the tokens of a path only the file names "a.go" and "x.go" have a dot
Ext(path) ==
    LET dotted(tok) == tok \in {"a.go", "x.go"}
        RECURSIVE LastDot(_)
        LastDot(i) == IF i < 1 \/ path[i] = "/" THEN 0
                      ELSE IF dotted(path[i]) THEN i
                      ELSE LastDot(i - 1)
        k == LastDot(Len(path))
    IN  IF k = 0 THEN <<>> ELSE <<".go">> \o SubSeq(path, k + 1, Len(path))

\* filetypes.GetLanguage: the language registered for the extension, ""
\* for an extension that is not registered
GetLanguage(path) == IF Ext(path) = <<".go">> THEN "go" ELSE ""

\* detectLanguage, lines 1318-1324
detectLanguage(filePath) ==
    IF GetLanguage(filePath) = "" THEN "text" ELSE GetLanguage(filePath)

\* The point IndexFile upserts; its id is derived from file_path alone.
Point(filePath, content) ==
    [file_path |-> filePath,
     base_path |-> SplitBasePath(filePath),
     content |-> content,
     language |-> detectLanguage(filePath),
     chunk_index |-> extractChunkIndex(filePath)]

\* QdrantStore.IndexFile on the points of one collection, embedding and
\* upsert both succeeding: an upsert replaces the point with the same id.
IndexFile(points, filePath, content) ==
    {p \in points : p.file_path # filePath} \cup {Point(filePath, content)}

\* QdrantStore.DeleteFile: removes the points whose base_path is filePath.
DeleteFile(points, filePath) ==
    {p \in points : p.base_path # filePath}

\* QdrantStore.FetchAllChunks: scroll filtered on base_path, at most 100 points.
ScrollLimit == 100

FetchAllChunks(points, basePath) ==
    LET hits == {p \in points : p.base_path = basePath}
    IN  IF Cardinality(hits) <= ScrollLimit THEN hits
        ELSE CHOOSE s \in SUBSET hits : Cardinality(s) = ScrollLimit

\* QdrantStore.Search returns points of the collection, whatever their path.
Search(points) == points

\* --------------------------------------------------------------- retriever
\* A score is a number of steps of 1/ScoreSteps between 0 and 1.  The query
\* has no keyword, so the keyword and path scores are 0 and the keyword
\* weight goes to the semantic weight.  FetchAllChunks does not fail.

\* the steps of the score scale
ScoreSteps == 2
\* the most tokens a chunk has, and a budget has
MaxTokens == 2
\* the most of a count in a configuration
MaxLimit == 2

Scores == 0..ScoreSteps

\* the zero value of SearchConfig
NoConfig ==
    [MaxTokenBudget |-> 0, ReserveTokens |-> 0, OversizeChunkLimit |-> 0,
     MinAbsoluteScore |-> 0, ScoreDistributionPercentile |-> 0,
     MinFilesAfterThreshold |-> 0, InitialChunkLimit |-> 0, MaxFilesLimit |-> 0,
     SemanticWeight |-> 0, KeywordWeight |-> 0, PathWeight |-> 0,
     AggregateWeight |-> 0]

\* configurations, the weights in hundredths
SearchConfigs ==
    [MaxTokenBudget : 1..MaxTokens, ReserveTokens : 0..(MaxTokens - 1),
     OversizeChunkLimit : 0..1,
     MinAbsoluteScore : Scores, ScoreDistributionPercentile : Scores,
     MinFilesAfterThreshold : 0..MaxLimit,
     InitialChunkLimit : {MaxLimit + 1}, MaxFilesLimit : 0..1,
     SemanticWeight : {70}, KeywordWeight : {15}, PathWeight : {5},
     AggregateWeight : {10, 20}]

\* SearchConfig.Validate returns nil
Validate(c) ==
    /\ c.MaxTokenBudget > c.ReserveTokens
    /\ c.MinAbsoluteScore >= 0 /\ c.MinAbsoluteScore <= ScoreSteps
    /\ c.ScoreDistributionPercentile >= 0 /\ c.ScoreDistributionPercentile <= ScoreSteps
    /\ c.MinFilesAfterThreshold >= 1
    /\ c.InitialChunkLimit >= c.MaxFilesLimit
    /\ LET weightSum == c.SemanticWeight + c.KeywordWeight + c.PathWeight
                            + c.AggregateWeight
       IN  weightSum >= 99 /\ weightSum <= 101

EffectiveTokenBudget(c) == c.MaxTokenBudget - c.ReserveTokens

\* the file_path of the chunks a vector search may return
ChunkFilePaths == {PathA, ChunkPath(PathC, 0), ChunkPath(PathC, 1)}

\* the results of a vector search: for each chunk path whether it is among
\* them, and if so with which score and how many tokens
RawResults ==
    {{[FilePath |-> q, Score |-> f[q][1], Tokens |-> f[q][2]] :
         q \in {x \in ChunkFilePaths : f[x][2] > 0}} :
     f \in [ChunkFilePaths -> Scores \X (0..MaxTokens)]}

\* the orders of the elements of a set
Orderings(S) ==
    {o \in [1..Cardinality(S) -> S] : \A i, j \in DOMAIN o : i # j => o[i] # o[j]}

\* the Score fields of the records of S, highest first
ScoresDescending(S) ==
    LET o == CHOOSE x \in Orderings(S) :
                 \A i, j \in DOMAIN x : i < j => x[i].Score >= x[j].Score
    IN  [i \in DOMAIN o |-> o[i].Score]

SumTokens(S) ==
    LET RECURSIVE Sum(_)
        Sum(T) == IF T = {} THEN 0
                  ELSE LET x == CHOOSE y \in T : TRUE
                       IN  x.Tokens + Sum(T \ {x})
    IN  Sum(S)

\* buildFileCandidates, lines 772-853: the chunks grouped by base path
buildFileCandidates(rawResults) ==
    {LET hits == {r \in rawResults : extractBasePath(r.FilePath) = b}
         desc == ScoresDescending(hits)
     IN  [BasePath |-> b,
          BestChunkScore |-> desc[1],
          TopKChunkScores |-> SubSeq(desc, 1, IF Len(desc) > 3 THEN 3 ELSE Len(desc)),
          ChunkCount |-> Cardinality(hits),
          EstimatedTokens |-> SumTokens(hits)] :
     b \in {extractBasePath(r.FilePath) : r \in rawResults}}

\* a threshold that is the floor of the configuration and no more
thresholdFloorOnly(candidates, config) == config.MinAbsoluteScore

\* calculateAdaptiveThreshold, lines 856-911
calculateAdaptiveThreshold(candidates, config) ==
    IF candidates = {} THEN config.MinAbsoluteScore
    ELSE
    LET desc == ScoresDescending({[BasePath |-> c.BasePath, Score |-> c.BestChunkScore] :
                                     c \in candidates})
        n == Len(desc)
        \* sorted ascending, indexed from 0
        scores(i) == desc[n - i]
        raw == (n * config.ScoreDistributionPercentile) \div ScoreSteps
        percentileIdx == IF raw >= n THEN n - 1 ELSE raw
        distributionThreshold == scores(percentileIdx)
        adaptiveThreshold ==
            IF distributionThreshold > config.MinAbsoluteScore
            THEN distributionThreshold ELSE config.MinAbsoluteScore
        survivors == Cardinality({i \in 0..(n - 1) : scores(i) >= adaptiveThreshold})
    IN  IF survivors < config.MinFilesAfterThreshold
           /\ n >= config.MinFilesAfterThreshold
        THEN scores(n - config.MinFilesAfterThreshold)
        ELSE adaptiveThreshold

\* calculateAggregateScore, in hundredths of a step
calculateAggregateScore(topKScores) ==
    LET weights == <<50, 30, 20>>
        RECURSIVE Sum(_)
        Sum(i) == IF i > Len(topKScores) \/ i > Len(weights) THEN 0
                  ELSE topKScores[i] * weights[i] + Sum(i + 1)
    IN  Sum(1)

\* applyHybridScoring, lines 914-986, in ten-thousandths of a step: no
\* keyword, no penalty for a .go file
HybridScore(candidate, config) ==
    candidate.BestChunkScore * (config.SemanticWeight + config.KeywordWeight) * 100
        + calculateAggregateScore(candidate.TopKChunkScores) * config.AggregateWeight

\* selectFilesWithinBudget, lines 995-1069, on the candidates as sort.Slice
\* has left them
selectFilesWithinBudget(sorted, config) ==
    LET maxTokens == EffectiveTokenBudget(config)
        RECURSIVE Select(_, _, _)
        Select(i, selected, cumulativeTokens) ==
            IF i > Len(sorted) \/ Len(selected) >= config.MaxFilesLimit
            THEN selected
            ELSE
            LET candidate == sorted[i]
                remainingBudget == maxTokens - cumulativeTokens
                topKChunks == IF config.OversizeChunkLimit > candidate.ChunkCount
                              THEN candidate.ChunkCount
                              ELSE config.OversizeChunkLimit
                estimatedTopKTokens ==
                    (candidate.EstimatedTokens \div candidate.ChunkCount) * topKChunks
            IN  IF candidate.EstimatedTokens <= remainingBudget
                THEN Select(i + 1,
                            Append(selected,
                                   [BasePath |-> candidate.BasePath,
                                    IsPartial |-> FALSE,
                                    EstimatedTokens |-> candidate.EstimatedTokens]),
                            cumulativeTokens + candidate.EstimatedTokens)
                ELSE IF /\ candidate.ChunkCount > 0
                        /\ estimatedTopKTokens <= remainingBudget
                        /\ topKChunks > 0
                THEN Select(i + 1,
                            Append(selected,
                                   [BasePath |-> candidate.BasePath,
                                    IsPartial |-> TRUE,
                                    EstimatedTokens |-> estimatedTopKTokens]),
                            cumulativeTokens + estimatedTopKTokens)
                ELSE Select(i + 1, selected, cumulativeTokens)
    IN  Select(1, <<>>, 0)

\* the candidates that pass the threshold, lines 1177-1183
Filtered(candidates, config) ==
    {c \in candidates :
        c.BestChunkScore >= calculateAdaptiveThreshold(candidates, config)}

\* a configuration Validate accepts that lets every candidate through: no
\* floor, no percentile, the whole budget, MaxLimit files
OpenConfig ==
    [MaxTokenBudget |-> MaxTokens, ReserveTokens |-> 0, OversizeChunkLimit |-> 1,
     MinAbsoluteScore |-> 0, ScoreDistributionPercentile |-> 0,
     MinFilesAfterThreshold |-> 1, InitialChunkLimit |-> MaxLimit + 1,
     MaxFilesLimit |-> MaxLimit,
     SemanticWeight |-> 70, KeywordWeight |-> 15, PathWeight |-> 5,
     AggregateWeight |-> 10]

\* the configurations that differ from it in what the threshold reads
ThresholdConfigs ==
    {c \in {[OpenConfig EXCEPT !.MinAbsoluteScore = s,
                               !.ScoreDistributionPercentile = p,
                               !.MinFilesAfterThreshold = m] :
                s \in Scores, p \in Scores, m \in 0..MaxLimit} : Validate(c)}

\* file candidates as the threshold reads them: some files, each with its
\* best chunk score
ScoredCandidates ==
    {{[BasePath |-> b, BestChunkScore |-> f[b]] : b \in B} :
        f \in [RepoPaths -> Scores], B \in SUBSET RepoPaths}

\* the weights of the hybrid score, in hundredths: semantic, keyword, path,
\* aggregate
WeightChoices ==
    {<<70, 15, 5, 10>>, <<69, 15, 5, 10>>, <<71, 15, 5, 10>>, <<150, -50, 0, 0>>,
     <<70, 15, 5, 20>>}

HybridConfigs ==
    {[OpenConfig EXCEPT !.SemanticWeight = w[1], !.KeywordWeight = w[2],
                        !.PathWeight = w[3], !.AggregateWeight = w[4]] :
        w \in WeightChoices}

\* file candidates as the hybrid score reads them: the scores of the top
\* chunks, at most 3, highest first, the first being the best chunk score
HybridCandidates ==
    {[BestChunkScore |-> t[1], KeywordScore |-> k, PathScore |-> q,
      TopKChunkScores |-> t] :
        k \in Scores, q \in Scores,
        t \in {x \in UNION {[1..n -> Scores] : n \in 1..3} :
                  \A i \in 1..(Len(x) - 1) : x[i] >= x[i + 1]}}

\* applyHybridScoring, lines 914-950, before the penalties, for one
\* candidate, in ten-thousandths of a step; keywordsUseful is
\* len(keywords) > 0 and avgKeywordScore >= 0.05
applyHybridScoring(candidate, keywordsUseful, config) ==
    LET semanticWeight == IF keywordsUseful THEN config.SemanticWeight
                          ELSE config.SemanticWeight + config.KeywordWeight
        keywordWeight == IF keywordsUseful THEN config.KeywordWeight ELSE 0
        aggregateScore == calculateAggregateScore(candidate.TopKChunkScores)
    IN  candidate.BestChunkScore * semanticWeight * 100
            + candidate.KeywordScore * keywordWeight * 100
            + candidate.PathScore * config.PathWeight * 100
            + aggregateScore * config.AggregateWeight

\* ------------------------------------------------- a query on a collection
\* the files of the collection that is queried: a.go is stored whole, b/x.go
\* as two chunks
PathB == <<"b", "/", "x.go">>
QueryFiles == {PathA, PathB}
QueryChunkPaths == {PathA, ChunkPath(PathB, 0), ChunkPath(PathB, 1)}

\* the length of the content of a stored chunk, in characters
ChunkChars == {3, CharsPerTokenEstimate * MaxTokens}

\* the points of the collection: each chunk path is stored or not
QueryStores ==
    {{Point(q, f[q]) : q \in {x \in QueryChunkPaths : f[x] # 0}} :
        f \in [QueryChunkPaths -> {0} \cup ChunkChars]}

\* what a vector search may return from some points: any of them, with a
\* score at an end of the scale
SearchResultsOf(points) ==
    {{[FilePath |-> x.file_path, Score |-> sc[x.file_path],
       Tokens |-> estimateTokens(x.content)] : x \in R} :
        R \in SUBSET points, sc \in [QueryChunkPaths -> {0, ScoreSteps}]}

\* configurations Validate accepts, with a small, a middle and a large budget
QueryConfigs ==
    {[OpenConfig EXCEPT !.MaxTokenBudget = b] : b \in {1, MaxTokens, 3 * MaxTokens}}

\* buildFileCandidates when one failure of FetchAllChunks ends it with nothing
candidatesOrNone(rawResults, failed) ==
    IF failed = {} THEN buildFileCandidates(rawResults) ELSE {}

\* buildFileCandidates when FetchAllChunks fails for the base paths failed:
\* lines 819-823
candidatesBuilt(rawResults, failed) ==
    {c \in buildFileCandidates(rawResults) : c.BasePath \notin failed}

\* reconstructFiles, lines 1073-1133, when FetchAllChunks fails for the base
\* paths failed: the results, each with the length of its content
reconstructFiles(points, selections, failed, config) ==
    LET contentOf(selection) ==
            LET fetched == FetchAllChunks(points, selection.BasePath)
                chunks == CHOOSE o \in Orderings(fetched) :
                              \A i, j \in DOMAIN o :
                                  i < j => o[i].chunk_index <= o[j].chunk_index
                topK == IF config.OversizeChunkLimit > Len(chunks) THEN Len(chunks)
                        ELSE config.OversizeChunkLimit
                taken == IF selection.IsPartial THEN SubSeq(chunks, 1, topK)
                         ELSE chunks
                RECURSIVE Sum(_)
                Sum(i) == IF i > Len(taken) THEN 0
                          ELSE taken[i].content + Sum(i + 1)
            IN  [FilePath |-> selection.BasePath,
                 Chunks |-> [i \in DOMAIN taken |-> taken[i].file_path],
                 Chars |-> IF taken = <<>> THEN 0 ELSE Sum(1) + Len(taken) - 1]
        RECURSIVE Build(_, _)
        Build(i, results) ==
            IF i > Len(selections) THEN results
            ELSE IF selections[i].BasePath \in failed
            THEN Build(i + 1, results)
            ELSE IF FetchAllChunks(points, selections[i].BasePath) = {}
            THEN Build(i + 1, results)
            ELSE Build(i + 1, Append(results, contentOf(selections[i])))
    IN  Build(1, <<>>)

\* ------------------------------------------------------------------ state
VARIABLES
    commits,      \* the commits of the repository: commit sha n is commits[n],
                  \* its tree and its parent commit
    branchHead,   \* git branch -> the commit it points to
    curBranch,    \* the branch checked out in the working copy (HEAD)
    disk,         \* the working copy: path -> content, Absent when no file
    metaFiles,    \* the metadata.json files under .mesh: path -> BranchMetadata
    coll,         \* the collections of the vector store: name -> points
    runs,         \* the index run of each caller
    scan,         \* the scanner: the branches the tick has still to check
    fileHashes,   \* Indexer.fileHashes of the command line indexer
    budget,       \* the events from outside that may still happen
    hist,         \* history: what earlier runs and scanner checks did
    loop,         \* the scanLoop goroutine: where it is, its ticker, its
                  \* stop channel and the context it was started with
    agentStore,   \* the collection behind the vector store of the agent
    search,       \* a QdrantStore used to search: its searchConfig, and the
                  \* raw results and the selections of the query it has answered
    call,         \* a call of a function of the chunker or of the retriever:
                  \* its arguments and what it returned
    query,        \* a query of a QdrantStore over a collection, with the calls
                  \* of it that failed, and what it returned
    pool,         \* a call of indexFilesParallel with its goroutines: the job
                  \* channel, the workers, the wait group and the statistics
    tracker       \* a CostTracker, the clock and the callers of RecordRequest

vars == <<commits, branchHead, curBranch, disk, metaFiles, coll, runs, scan,
          fileHashes, budget, hist, loop, agentStore, search, call, query, pool,
          tracker>>

envVars == <<commits, branchHead, curBranch, disk>>

Callers == {"scanner", "endpoint", "webhook", "cli"}

\* no function has been called, no query made
NoCall == [op |-> "none"]
NoQuery == [op |-> "none"]
NoPool == [pc |-> "idle"]
NoTracker == [made |-> FALSE]

\* config.go: workers = NumCPU/2, at least 3
WorkerCount == 3

NoMeta == [Branch |-> <<>>, CommitSHA |-> 0, FileCount |-> 0]

\* the content of a metadata.json that json.Unmarshal rejects, an empty file
\* for one; LoadMetadata gives it back where the code returns (nil, err)
Unparsable == [Branch |-> <<"?">>, CommitSHA |-> 0, FileCount |-> 0]

\* a commit_sha of less than 8 characters, which no commit of git has
ShortSha == -1

\* the slice commit[:8] is within the string
HasPrefix8(commit) == commit # ShortSha

IdleRun ==
    [pc |-> "idle", kind |-> "none", branch |-> <<>>, currentCommit |-> 0,
     changed |-> <<>>, jobs |-> <<>>, chan |-> <<>>, active |-> {},
     stats |-> [Indexed |-> 0, Errors |-> 0],
     indexed |-> 0, errors |-> 0, result |-> "none",
     \* history of the run
     calls |-> 0, failed |-> {}, succeeded |-> {}, deleted |-> {},
     saved |-> "no", again |-> FALSE, diff |-> {}]

\* ---------------------------------------------------------------------- git
\* git rev-parse <branch>: fails for a branch git does not know
GetBranchCommit(branch) ==
    IF branch \in GitBranches
    THEN [err |-> FALSE, commit |-> branchHead[branch]]
    ELSE [err |-> TRUE, commit |-> 0]

\* git rev-parse HEAD
GetHeadCommit == branchHead[curBranch]

\* git branch --show-current
GetCurrentBranch == curBranch

\* the paths in lexical order, as git diff --name-only and filepath.Walk list them
PathOrder == <<PathA, PathC>>

\* git diff --name-only fromCommit HEAD
GetChangedFilesSince(fromCommit) ==
    SelectSeq(PathOrder,
              LAMBDA p : commits[fromCommit].tree[p] # commits[GetHeadCommit].tree[p])

\* git resolves the revision; git diff fails for a revision it does not know
IsRevision(commit) == commit \in 1..Len(commits)

\* ----------------------------------------------------------------- metadata
LoadMetadata(branch) ==
    IF GetMetadataPath(branch) \in DOMAIN metaFiles
    THEN metaFiles[GetMetadataPath(branch)]
    ELSE NoMeta

\* os.WriteFile, line 228, has opened the file, which is empty from then on,
\* and has not written it yet
TruncateFile(files, path) ==
    [f \in DOMAIN files \cup {path} |-> IF f = path THEN Unparsable ELSE files[f]]

\* the files after SaveMetadata(meta) has succeeded
SaveMetadata(files, meta) ==
    [f \in DOMAIN files \cup {GetMetadataPath(meta.Branch)} |->
        IF f = GetMetadataPath(meta.Branch) THEN meta ELSE files[f]]

\* os.ReadDir lists the directories of .mesh/<repo> sorted by name
MetaDirOrder ==
    <<GetMetadataPath(Feature), GetMetadataPath(Main), GetMetadataPath(XMain)>>

\* GetKnownBranches: the Branch field of every readable metadata.json
GetKnownBranches ==
    LET dirs == SelectSeq(MetaDirOrder,
                          LAMBDA f : f \in DOMAIN metaFiles /\ metaFiles[f] # Unparsable)
    IN  [i \in 1..Len(dirs) |-> metaFiles[dirs[i]].Branch]

\* NeedsReindexing that asks for a reindex whatever the metadata says
NeedsReindexingAlways(branch) ==
    LET cur == GetBranchCommit(branch)
    IN  [err |-> cur.err, needs |-> ~cur.err, commit |-> cur.commit]

\* NeedsReindexing that compares the metadata with HEAD, not with the branch
NeedsReindexingHead(branch) ==
    LET cur == GetBranchCommit(branch)
        meta == LoadMetadata(branch)
    IN  IF cur.err \/ meta = Unparsable
        THEN [err |-> TRUE, needs |-> FALSE, commit |-> 0]
        ELSE IF meta = NoMeta THEN [err |-> FALSE, needs |-> TRUE, commit |-> cur.commit]
        ELSE [err |-> FALSE, needs |-> meta.CommitSHA # branchHead[curBranch],
              commit |-> cur.commit]

NeedsReindexing(branch) ==
    LET cur == GetBranchCommit(branch)
        meta == LoadMetadata(branch)
    IN  IF cur.err \/ meta = Unparsable
        THEN [err |-> TRUE, needs |-> FALSE, commit |-> 0]
        ELSE IF meta = NoMeta THEN [err |-> FALSE, needs |-> TRUE, commit |-> cur.commit]
        ELSE [err |-> FALSE, needs |-> meta.CommitSHA # cur.commit, commit |-> cur.commit]

\* ------------------------------------------------------------ environment
Init ==
    /\ commits = <<[tree |-> [p \in Paths |-> 1], parent |-> 0]>>
    /\ branchHead = [b \in GitBranches |-> 1]
    /\ curBranch = Main
    /\ disk = [p \in Paths |-> 1]
    /\ metaFiles = <<>>
    /\ coll = <<>>
    /\ runs = [c \in Callers |-> IdleRun]
    /\ scan = <<>>
    /\ fileHashes = [p \in Paths |-> Absent]
    /\ budget = MaxEvents
    /\ hist = [okCommit |-> [b \in GitBranches |-> 0], creator |-> <<>>,
               stores |-> {}, saved |-> {}]
    /\ loop = [pc |-> "run", ticker |-> FALSE, stopChan |-> "open", ctx |-> "live"]
    /\ agentStore = CollectionName(Main)
    /\ search = [config |-> NoConfig, done |-> FALSE, raw |-> {}, selections |-> <<>>]
    /\ call = NoCall
    /\ query = NoQuery
    /\ pool = NoPool
    /\ tracker = NoTracker

\* a file of the working copy is written, created or removed, and the change
\* is committed on the checked-out branch
Commit(p, c) ==
    /\ budget > 0
    /\ disk[p] # c
    /\ disk' = [disk EXCEPT ![p] = c]
    /\ commits' = Append(commits, [tree |-> disk', parent |-> branchHead[curBranch]])
    /\ branchHead' = [branchHead EXCEPT ![curBranch] = Len(commits) + 1]
    /\ budget' = budget - 1
    /\ UNCHANGED <<curBranch, metaFiles, coll, runs, scan, fileHashes, hist,
                   loop, agentStore, search, call, query, pool, tracker>>

\* git checkout b
Checkout(b) ==
    /\ budget > 0
    /\ b # curBranch
    /\ curBranch' = b
    /\ disk' = commits[branchHead[b]].tree
    /\ budget' = budget - 1
    /\ UNCHANGED <<commits, branchHead, metaFiles, coll, runs, scan, fileHashes, hist,
                   loop, agentStore, search, call, query, pool, tracker>>

\* ------------------------------------------------------------ run helpers
AllIdle == \A c \in Callers : runs[c].pc = "idle"

\* a call fails / does not fail
Fault == budget > 0 /\ budget' = budget - 1
NoFault == budget' = budget

\* the context of the run of caller c is done.  The scanner hands the
\* context of scanLoop down to every run it starts; the contexts of the HTTP
\* requests and of the command line are taken never to be cancelled.
Cancelled(c) == c = "scanner" /\ loop.ctx = "done"

\* a call that takes the context of the run (embedding, upsert, delete)
\* succeeds / fails: it fails on its own, or because the context is done
CallSucceeds(c) == ~Cancelled(c) /\ NoFault
CallFails(c) == IF Cancelled(c) THEN budget' = budget ELSE Fault

\* QdrantStore.ensureCollection
ensureCollection(cs, name) ==
    IF name \in DOMAIN cs THEN cs
    ELSE [n \in DOMAIN cs \cup {name} |-> IF n = name THEN {} ELSE cs[n]]

\* the collection an index run writes to
StoreOf(r) == CollectionName(r.branch)

Job(relPath) == [RelPath |-> relPath, Content |-> disk[relPath]]

JobPaths(jobs) == {jobs[i].RelPath : i \in 1..Len(jobs)}

\* the path indexFileOrChunks gives chunk k of a job
ChunkPathOf(job, k) ==
    LET chunks == ChunkFile(job.Content)
    IN  IF Len(chunks) > 1
        THEN ChunkPath(job.RelPath, chunks[k].ChunkIndex)
        ELSE job.RelPath

\* Gateway.ReindexBranch for the configured repository, up to the call of
\* IndexIncremental: the store of the branch is opened, no lock is taken
ReindexBranch(c, branch) ==
    /\ runs' = [runs EXCEPT ![c] =
                   [IdleRun EXCEPT !.pc = "check", !.kind = "incremental",
                                   !.branch = branch]]
    /\ coll' = ensureCollection(coll, CollectionName(branch))

\* ------------------------------------------------------------ entry points
\* POST /webhook/github: the payload names the repository and the branch
handleGitHubWebhook(alone) ==
    \E branch \in GitBranches :
        /\ runs["webhook"].pc = "idle"
        /\ budget > 0
        /\ alone => AllIdle
        /\ ReindexBranch("webhook", branch)
        /\ budget' = budget - 1
        /\ UNCHANGED <<envVars, loop, agentStore, search, call, query, metaFiles, scan, fileHashes, hist, pool, tracker>>

\* POST /repos/:repo/reindex: Gateway.ReindexRepo reindexes the current branch
handleReindexRepo(alone) ==
    /\ runs["endpoint"].pc = "idle"
    /\ budget > 0
    /\ alone => AllIdle
    /\ ReindexBranch("endpoint", GetCurrentBranch)
    /\ budget' = budget - 1
    /\ UNCHANGED <<envVars, loop, agentStore, search, call, query, metaFiles, scan, fileHashes, hist, pool, tracker>>

\* ------------------------------------------------------------ worker pool
\* indexFilesParallel, lines 208-211: every job has been taken and every
\* worker has returned; the caller takes over the counts
indexFilesParallelWait(r) ==
    IF r.chan # <<>> \/ r.active # {} THEN r
    ELSE IF r.kind = "incremental"
    THEN [r EXCEPT !.pc = "save",
                   !.indexed = r.stats.Indexed,
                   !.errors = @ + r.stats.Errors]
    ELSE [r EXCEPT !.pc = "done", !.result = "ok"]

\* indexFilesParallel, lines 176-206: no job, no worker; else the jobs are
\* put on the channel, which is then closed
indexFilesParallel(r) ==
    IF r.jobs = <<>>
    THEN indexFilesParallelWait(r)
    ELSE [r EXCEPT !.pc = "work", !.chan = r.jobs]

\* an indexWorker that gives up the whole run at the first failed job
JobFailedAbort(r, a) ==
    indexFilesParallelWait([r EXCEPT !.active = {},
                                     !.chan = <<>>,
                                     !.stats.Errors = @ + 1,
                                     !.failed = @ \cup {a.job.RelPath}])

\* indexWorker: a job whose indexFileOrChunks returned an error
JobFailed(r, a) ==
    indexFilesParallelWait([r EXCEPT !.active = @ \ {a},
                                     !.stats.Errors = @ + 1,
                                     !.failed = @ \cup {a.job.RelPath}])

\* indexWorker: a job whose indexFileOrChunks returned nil
JobIndexed(r, a) ==
    indexFilesParallelWait([r EXCEPT !.active = @ \ {a},
                                     !.stats.Indexed = @ + 1,
                                     !.succeeded = @ \cup {a.job.RelPath}])

\* indexFileOrChunks, lines 254-267, for the job in flight a: its next chunk
\* is embedded and upserted; an error of either ends the job
NextChunk(c, r, a) ==
    LET chunks == ChunkFile(a.job.Content)
        called == [r EXCEPT !.calls = @ + 1]
        more == [called EXCEPT !.active = (@ \ {a}) \cup {[a EXCEPT !.next = @ + 1]}]
    IN  \/ /\ CallSucceeds(c)
           /\ coll' = [coll EXCEPT ![StoreOf(r)] =
                          IndexFile(@, ChunkPathOf(a.job, a.next),
                                    chunks[a.next].Content)]
           /\ runs' = [runs EXCEPT ![c] =
                          IF a.next = Len(chunks) THEN JobIndexed(called, a) ELSE more]
        \/ \* createEmbedding or Upsert fails
           /\ CallFails(c)
           /\ coll' = coll
           /\ runs' = [runs EXCEPT ![c] = JobFailed(called, a)]

\* indexWorker, line 216: a free worker receives the next job of the channel
\* and starts on it
indexWorker(c) ==
    LET r == runs[c]
        a == [job |-> Head(r.chan), next |-> 1]
        taken == [r EXCEPT !.chan = Tail(@), !.active = @ \cup {a}]
    IN  /\ r.pc = "work"
        /\ r.chan # <<>>
        /\ Cardinality(r.active) < WorkerCount
        /\ NextChunk(c, taken, a)
        /\ UNCHANGED <<envVars, loop, agentStore, search, call, query, metaFiles, scan, fileHashes, hist, pool, tracker>>

\* a worker goes on with the job it holds
indexFileOrChunks(c) ==
    LET r == runs[c]
    IN  /\ r.pc = "work"
        /\ \E a \in r.active : NextChunk(c, r, a)
        /\ UNCHANGED <<envVars, loop, agentStore, search, call, query, metaFiles, scan, fileHashes, hist, pool, tracker>>

\* ------------------------------------------------------- IndexIncremental
\* lines 416-466: indexAllFiles walks the working copy
indexAllFiles(r) ==
    LET found == SelectSeq(PathOrder, LAMBDA p : disk[p] # Absent /\ isCodeFile(p))
    IN  indexFilesParallel([r EXCEPT !.jobs = [i \in 1..Len(found) |-> Job(found[i])]])

\* lines 336-379: the loop over the changed files, then the worker pool
ChangedFiles(r) ==
    IF r.changed = <<>> THEN indexFilesParallel(r) ELSE [r EXCEPT !.pc = "files"]

\* lines 297-333: NeedsReindexing decides whether the run does anything; the
\* metadata is loaded again, and none means a first index of the branch
\* (indexAllFiles), else the files changed since its commit are gone through
IndexIncremental(c) ==
    LET r == runs[c]
        nr == NeedsReindexing(r.branch)
        meta == LoadMetadata(r.branch)
        seen == [r EXCEPT !.currentCommit = nr.commit,
                          !.again = ~nr.err /\ hist.okCommit[r.branch] = nr.commit]
    IN  /\ r.pc = "check"
        /\ runs' = [runs EXCEPT ![c] =
                IF nr.err THEN [seen EXCEPT !.pc = "done", !.result = "err"]
                ELSE IF ~nr.needs THEN [seen EXCEPT !.pc = "done", !.result = "ok"]
                ELSE IF meta = NoMeta THEN indexAllFiles(seen)
                ELSE IF ~IsRevision(meta.CommitSHA)
                THEN [seen EXCEPT !.pc = "done", !.result = "err"]
                ELSE ChangedFiles([seen EXCEPT
                         !.changed = GetChangedFilesSince(meta.CommitSHA),
                         !.diff = {GetChangedFilesSince(meta.CommitSHA)[i] :
                                     i \in DOMAIN GetChangedFilesSince(meta.CommitSHA)}])]
        /\ UNCHANGED <<envVars, loop, agentStore, search, call, query, metaFiles, coll, scan, fileHashes, budget, hist, pool, tracker>>

\* lines 336-379: one changed file.  A file that is gone is deleted from the
\* index; a file that is there has its old points deleted and becomes a job.
IncrementalFile(c) ==
    LET r == runs[c]
        file == Head(r.changed)
        next == [r EXCEPT !.changed = Tail(r.changed)]
        called == [next EXCEPT !.calls = @ + 1]
    IN  /\ r.pc = "files"
        /\ \/ /\ ~isCodeFile(file)
              /\ NoFault
              /\ runs' = [runs EXCEPT ![c] = ChangedFiles(next)]
              /\ coll' = coll
           \/ /\ isCodeFile(file)
              /\ disk[file] = Absent
              /\ \/ /\ CallSucceeds(c)
                    /\ coll' = [coll EXCEPT ![StoreOf(r)] = DeleteFile(@, file)]
                    /\ runs' = [runs EXCEPT ![c] =
                          ChangedFiles([called EXCEPT !.deleted = @ \cup {file}])]
                 \/ \* DeleteFile fails
                    /\ CallFails(c)
                    /\ coll' = coll
                    /\ runs' = [runs EXCEPT ![c] =
                          ChangedFiles([called EXCEPT !.errors = @ + 1])]
           \/ \* os.ReadFile fails with another error than "not exist"
              /\ isCodeFile(file)
              /\ disk[file] # Absent
              /\ Fault
              /\ coll' = coll
              /\ runs' = [runs EXCEPT ![c] = ChangedFiles([next EXCEPT !.errors = @ + 1])]
           \/ /\ isCodeFile(file)
              /\ disk[file] # Absent
              /\ \/ /\ CallSucceeds(c)
                    /\ coll' = [coll EXCEPT ![StoreOf(r)] = DeleteFile(@, file)]
                 \/ \* DeleteFile fails: a warning only
                    /\ CallFails(c)
                    /\ coll' = coll
              /\ runs' = [runs EXCEPT ![c] =
                    ChangedFiles([called EXCEPT !.jobs = Append(@, Job(file))])]
        /\ UNCHANGED <<envVars, loop, agentStore, search, call, query, metaFiles, scan, fileHashes, hist, pool, tracker>>

\* metadata that records the commit of the branch at the time of saving
newMetaAtSave(r) ==
    [Branch |-> r.branch, CommitSHA |-> GetBranchCommit(r.branch).commit,
     FileCount |-> r.indexed]

\* lines 394-400 and 472-478: the metadata a run saves
newMeta(r) ==
    [Branch |-> r.branch, CommitSHA |-> r.currentCommit, FileCount |-> r.indexed]

\* lines 402-413 and 480-490: SaveMetadata, whatever the per-file errors
IncrementalSave(c) ==
    LET r == runs[c]
    IN  /\ r.pc = "save"
        /\ \/ /\ NoFault
              /\ metaFiles' = SaveMetadata(metaFiles, newMeta(r))
              /\ runs' = [runs EXCEPT ![c] =
                             [r EXCEPT !.pc = "done", !.result = "ok", !.saved = "ok"]]
              /\ hist' = [hist EXCEPT !.creator =
                    IF GetMetadataPath(r.branch) \in DOMAIN hist.creator THEN @
                    ELSE [f \in DOMAIN @ \cup {GetMetadataPath(r.branch)} |->
                            IF f = GetMetadataPath(r.branch) THEN c ELSE @[f]]]
           \/ \* os.MkdirAll or os.WriteFile fails
              /\ Fault
              /\ metaFiles' = metaFiles
              /\ runs' = [runs EXCEPT ![c] =
                             [r EXCEPT !.pc = "done", !.result = "err", !.saved = "fail"]]
              /\ hist' = hist
        /\ UNCHANGED <<envVars, loop, agentStore, search, call, query, coll, scan, fileHashes, pool, tracker>>

\* SaveMetadata, lines 215-228, as another goroutine sees it, first half:
\* os.MkdirAll makes the directory and os.WriteFile opens the file, which
\* empties it
SaveMetadataOpen(c) ==
    LET r == runs[c]
    IN  /\ r.pc = "save"
        /\ \/ /\ NoFault
              /\ metaFiles' = TruncateFile(metaFiles, GetMetadataPath(r.branch))
              /\ runs' = [runs EXCEPT ![c] = [r EXCEPT !.pc = "write"]]
           \/ \* os.MkdirAll or the open fails
              /\ Fault
              /\ metaFiles' = metaFiles
              /\ runs' = [runs EXCEPT ![c] =
                             [r EXCEPT !.pc = "done", !.result = "err", !.saved = "fail"]]
        /\ UNCHANGED <<envVars, loop, agentStore, search, call, query, coll, scan, fileHashes, hist, pool, tracker>>

\* second half: os.WriteFile writes the bytes of the metadata and closes
SaveMetadataWrite(c) ==
    LET r == runs[c]
    IN  /\ r.pc = "write"
        /\ \/ /\ NoFault
              /\ metaFiles' = SaveMetadata(metaFiles, newMeta(r))
              /\ runs' = [runs EXCEPT ![c] =
                             [r EXCEPT !.pc = "done", !.result = "ok", !.saved = "ok"]]
           \/ \* the write fails: the file stays as it is
              /\ Fault
              /\ metaFiles' = metaFiles
              /\ runs' = [runs EXCEPT ![c] =
                             [r EXCEPT !.pc = "done", !.result = "err", !.saved = "fail"]]
        /\ UNCHANGED <<envVars, loop, agentStore, search, call, query, coll, scan, fileHashes, hist, pool, tracker>>

\* the run returns to its caller
Returned(c) ==
    LET r == runs[c]
    IN  /\ r.pc = "done"
        /\ runs' = [runs EXCEPT ![c] = IdleRun]
        /\ hist' = [hist EXCEPT !.okCommit =
                IF r.kind = "incremental" /\ r.result = "ok"
                THEN [@ EXCEPT ![r.branch] = r.currentCommit]
                ELSE @]

\* an HTTP handler answers
HandlerReturn ==
    \E c \in {"endpoint", "webhook"} :
        /\ Returned(c)
        /\ UNCHANGED <<envVars, loop, agentStore, search, call, query, metaFiles, coll, scan, fileHashes, budget, pool, tracker>>

\* ----------------------------------------------------------------- scanner
\* every branch of the repository, known to the metadata or not
AllGitBranches == <<Feature, Main>>

\* the branches scanRepo checks on a tick
BranchesToScan == GetKnownBranches

\* scanAllRepos / scanRepo, lines 75-110: a tick starts; a repository with
\* no known branch is left alone
scanRepo ==
    /\ scan = <<>>
    /\ scan' = BranchesToScan
    /\ UNCHANGED <<envVars, loop, agentStore, search, call, query, metaFiles, coll, runs, fileHashes, budget, hist, pool, tracker>>

\* checkBranchForChanges, lines 118-149: reindex when NeedsReindexing says so.
\* Lines 137-145 log the first 8 characters of the old and of the new commit:
\* a commit shorter than that is a slice out of range, a panic nothing
\* recovers from.
checkBranchForChanges(alone) ==
    LET branch == Head(scan)
        nr == NeedsReindexing(branch)
        meta == LoadMetadata(branch)
    IN  /\ scan # <<>>
        /\ loop.pc = "run"
        /\ runs["scanner"].pc = "idle"
        /\ IF nr.err \/ ~nr.needs
           THEN /\ scan' = Tail(scan)
                /\ UNCHANGED <<runs, coll, loop, pool, tracker>>
           ELSE IF (meta \notin {NoMeta, Unparsable} /\ ~HasPrefix8(meta.CommitSHA))
                    \/ ~HasPrefix8(nr.commit)
           THEN /\ loop' = [loop EXCEPT !.pc = "panic"]
                /\ UNCHANGED <<runs, coll, scan, pool, tracker>>
           ELSE /\ alone => AllIdle
                /\ ReindexBranch("scanner", branch)
                /\ UNCHANGED <<scan, loop, pool, tracker>>
        /\ UNCHANGED <<envVars, agentStore, search, call, query, metaFiles, fileHashes, budget, hist, pool, tracker>>

\* lines 149-153: ReindexBranch has returned to the scanner, which goes on to
\* the next branch
ScannerReturn ==
    /\ Returned("scanner")
    /\ scan' = Tail(scan)
    /\ UNCHANGED <<envVars, loop, agentStore, search, call, query, metaFiles, coll, fileHashes, budget, pool, tracker>>

\* time.Ticker: the interval has passed; the channel of the ticker holds one
\* tick at most
Tick ==
    /\ loop.pc = "run"
    /\ ~loop.ticker
    /\ loop' = [loop EXCEPT !.ticker = TRUE]
    /\ UNCHANGED <<envVars, agentStore, search, call, query, metaFiles, coll, runs, scan, fileHashes,
                   budget, hist, pool, tracker>>

\* scanLoop, lines 60-71: between two ticks the goroutine is in the select,
\* which takes any one of the cases that are ready: a tick starts
\* scanAllRepos, a closed stopChan or a done context ends the loop
scanLoop ==
    /\ loop.pc = "run"
    /\ scan = <<>>
    /\ runs["scanner"].pc = "idle"
    /\ \/ /\ loop.ticker
          /\ loop' = [loop EXCEPT !.ticker = FALSE]
          /\ scan' = BranchesToScan
       \/ /\ loop.stopChan = "closed" \/ loop.ctx = "done"
          /\ loop' = [loop EXCEPT !.pc = "exited"]
          /\ scan' = scan
    /\ UNCHANGED <<envVars, agentStore, search, call, query, metaFiles, coll, runs, fileHashes, budget, hist, pool, tracker>>

\* BranchScanner.Stop, line 47 (Gateway.Close): the stop channel is closed
Stop ==
    /\ budget > 0
    /\ loop.stopChan = "open"
    /\ loop' = [loop EXCEPT !.stopChan = "closed"]
    /\ budget' = budget - 1
    /\ UNCHANGED <<envVars, agentStore, search, call, query, metaFiles, coll, runs, scan, fileHashes, hist, pool, tracker>>

\* the context BranchScanner.Start was given is cancelled
Cancel ==
    /\ budget > 0
    /\ loop.ctx = "live"
    /\ loop' = [loop EXCEPT !.ctx = "done"]
    /\ budget' = budget - 1
    /\ UNCHANGED <<envVars, agentStore, search, call, query, metaFiles, coll, runs, scan, fileHashes, hist, pool, tracker>>

\* a metadata.json the indexer has not written: it parses, it names a branch
\* of the repository, its commit_sha is not a full commit
ForeignMetadata ==
    \E b \in GitBranches :
        /\ budget > 0
        /\ metaFiles' = SaveMetadata(metaFiles,
                            [Branch |-> b, CommitSHA |-> ShortSha, FileCount |-> 0])
        /\ budget' = budget - 1
        /\ UNCHANGED <<envVars, loop, agentStore, search, call, query, coll, runs, scan, fileHashes, hist, pool, tracker>>

\* ------------------------------------------------------ stores and metadata
\* NewQdrantStoreWithBranch, lines 524-570, called for any repository and any
\* branch: the store is bound to the collection of that name, which is made
\* if it is not there
NewQdrantStoreWithBranch ==
    \E repoName \in RepoNames, branch \in BranchNames :
        LET store == [repoName |-> repoName, branch |-> branch,
                      collectionName |-> collectionName(repoName, branch)]
        IN  /\ store \notin hist.stores
            /\ coll' = ensureCollection(coll, store.collectionName)
            /\ hist' = [hist EXCEPT !.stores = @ \cup {store}]
            /\ UNCHANGED <<envVars, loop, agentStore, search, call, query, metaFiles, runs, scan,
                           fileHashes, budget, pool, tracker>>

\* SaveMetadata called for any branch of the configured repository, at the
\* commit of any content
SaveBranchMetadata ==
    \E branch \in BranchNames, commit \in Contents :
        /\ metaFiles' = SaveMetadata(metaFiles,
                [Branch |-> branch, CommitSHA |-> commit, FileCount |-> 0])
        /\ metaFiles' # metaFiles
        /\ hist' = [hist EXCEPT !.saved = @ \cup {branch}]
        /\ UNCHANGED <<envVars, loop, agentStore, search, call, query, coll, runs, scan, fileHashes, budget, pool, tracker>>

\* a metadata.json is cut short, or its directory loses it
DamageMetadata ==
    \E branch \in hist.saved :
        /\ metaFiles[GetMetadataPath(branch)] # Unparsable
        /\ metaFiles' = TruncateFile(metaFiles, GetMetadataPath(branch))
        /\ hist' = [hist EXCEPT !.saved =
                {b \in @ : GetMetadataPath(b) # GetMetadataPath(branch)}]
        /\ UNCHANGED <<envVars, loop, agentStore, search, call, query, coll, runs, scan, fileHashes, budget, pool, tracker>>

\* ------------------------------------------------------- IndexRepository
\* NewIndexer: a new Indexer starts with an empty hash map
NewIndexer ==
    /\ runs["cli"].pc = "idle"
    /\ fileHashes # [p \in Paths |-> Absent]
    /\ fileHashes' = [p \in Paths |-> Absent]
    /\ UNCHANGED <<envVars, loop, agentStore, search, call, query, metaFiles, coll, runs, scan, budget, hist, pool, tracker>>

\* IndexRepository that takes every code file, whatever its hash
IndexRepositoryAll ==
    /\ runs["cli"].pc = "idle"
    /\ budget > 0
    /\ LET found == SelectSeq(PathOrder,
                         LAMBDA p : disk[p] # Absent /\ isCodeFile(p))
       IN  /\ runs' = [runs EXCEPT !["cli"] = indexFilesParallel(
                  [IdleRun EXCEPT !.kind = "repository", !.branch = Main,
                                  !.jobs = [i \in 1..Len(found) |-> Job(found[i])]])]
           /\ fileHashes' = [p \in Paths |->
                  IF \E i \in 1..Len(found) : found[i] = p
                  THEN disk[p] ELSE fileHashes[p]]
    /\ coll' = ensureCollection(coll, CollectionName(Main))
    /\ budget' = budget - 1
    /\ UNCHANGED <<envVars, loop, agentStore, search, call, query, metaFiles, scan, hist, pool, tracker>>

\* IndexRepository, lines 95-161, on the store NewQdrantStore opens (branch
\* "main"): every code file whose hash is not the one seen before becomes a
\* job, and its hash is remembered
IndexRepository ==
    /\ runs["cli"].pc = "idle"
    /\ budget > 0
    /\ LET found == SelectSeq(PathOrder,
                         LAMBDA p : /\ disk[p] # Absent
                                    /\ isCodeFile(p)
                                    /\ fileHashes[p] # disk[p])
       IN  /\ runs' = [runs EXCEPT !["cli"] = indexFilesParallel(
                  [IdleRun EXCEPT !.kind = "repository", !.branch = Main,
                                  !.jobs = [i \in 1..Len(found) |-> Job(found[i])]])]
           /\ fileHashes' = [p \in Paths |->
                  IF \E i \in 1..Len(found) : found[i] = p
                  THEN disk[p] ELSE fileHashes[p]]
    /\ coll' = ensureCollection(coll, CollectionName(Main))
    /\ budget' = budget - 1
    /\ UNCHANGED <<envVars, loop, agentStore, search, call, query, metaFiles, scan, hist, pool, tracker>>

\* the command returns
CliReturn ==
    /\ Returned("cli")
    /\ UNCHANGED <<envVars, loop, agentStore, search, call, query, metaFiles, coll, scan, fileHashes, budget, pool, tracker>>

\* ----------------------------------------------------------------- search
\* a QdrantStore is given a configuration that Validate accepts
SetSearchConfig ==
    \E c \in SearchConfigs :
        /\ search.config = NoConfig
        /\ Validate(c)
        /\ search' = [search EXCEPT !.config = c]
        /\ UNCHANGED <<envVars, loop, agentStore, call, query, metaFiles, coll, runs, scan,
                       fileHashes, budget, hist, pool, tracker>>

\* SearchWithAggregation, lines 1137-1222, up to the selections: the vector
\* search returns rawResults; sort.Slice leaves candidates of equal hybrid
\* score in any order
SearchWithAggregation ==
    \E rawResults \in RawResults :
        LET config == search.config
            candidates == buildFileCandidates(rawResults)
            filtered == Filtered(candidates, config)
        IN  /\ search.config # NoConfig
            /\ ~search.done
            /\ \E sorted \in Orderings(filtered) :
                  /\ \A i, j \in DOMAIN sorted :
                        i < j => HybridScore(sorted[i], config)
                                    >= HybridScore(sorted[j], config)
                  /\ search' = [search EXCEPT
                        !.done = TRUE,
                        !.raw = rawResults,
                        !.selections =
                            IF rawResults = {} \/ candidates = {} \/ filtered = {}
                            THEN <<>>
                            ELSE selectFilesWithinBudget(sorted, config)]
            /\ UNCHANGED <<envVars, loop, agentStore, call, query, metaFiles, coll, runs, scan,
                           fileHashes, budget, hist, pool, tracker>>

\* ------------------------------------------------------------------ calls
\* ChunkFile is called on a text, as indexWorker calls it on a file it read
ChunkFileCall ==
    /\ call = NoCall
    /\ \E filePath \in Paths, content \in FileTexts, language \in Languages :
           /\ call' = [op |-> "ChunkFile", filePath |-> filePath,
                       content |-> content, language |-> language,
                       chunks |-> ChunkFileText(filePath, content, language)]
           /\ UNCHANGED <<envVars, loop, agentStore, search, query, metaFiles, coll,
                          runs, scan, fileHashes, budget, hist, pool, tracker>>

\* the path indexWorker gives to chunk chunkIndex of a file is taken apart
\* again, as IndexFile and buildFileCandidates do
extractBasePathCall ==
    /\ call = NoCall
    /\ \E basePath \in RepoPaths, chunkIndex \in 0..(Len(Digits) - 1) :
           LET filePath == ChunkPath(basePath, chunkIndex)
           IN  /\ call' = [op |-> "extractBasePath", basePath |-> basePath,
                           chunkIndex |-> chunkIndex, filePath |-> filePath,
                           base |-> extractBasePath(filePath),
                           index |-> extractChunkIndex(filePath)]
               /\ UNCHANGED <<envVars, loop, agentStore, search, query, metaFiles,
                              coll, runs, scan, fileHashes, budget, hist, pool, tracker>>

\* the threshold of some candidates is computed and the candidates are
\* filtered by it, steps 4 and 5 of SearchWithAggregation
calculateAdaptiveThresholdCall ==
    /\ call = NoCall
    /\ \E candidates \in ScoredCandidates \ {{}}, config \in ThresholdConfigs :
           /\ call' = [op |-> "calculateAdaptiveThreshold",
                       candidates |-> candidates, config |-> config,
                       threshold |-> calculateAdaptiveThreshold(candidates, config),
                       filtered |-> Filtered(candidates, config)]
           /\ UNCHANGED <<envVars, loop, agentStore, search, query, metaFiles, coll,
                          runs, scan, fileHashes, budget, hist, pool, tracker>>

\* the hybrid score of a candidate is computed, step 6 of
\* SearchWithAggregation
applyHybridScoringCall ==
    /\ call = NoCall
    /\ \E candidate \in HybridCandidates, keywordsUseful \in BOOLEAN,
          config \in HybridConfigs :
           /\ call' = [op |-> "applyHybridScoring", candidate |-> candidate,
                       keywordsUseful |-> keywordsUseful, config |-> config,
                       valid |-> Validate(config),
                       HybridScore |-> applyHybridScoring(candidate, keywordsUseful,
                                                          config)]
           /\ UNCHANGED <<envVars, loop, agentStore, search, query, metaFiles, coll,
                          runs, scan, fileHashes, budget, hist, pool, tracker>>

\* ------------------------------------------------------------------ query
\* SearchWithAggregation, lines 1137-1222, on a collection: the embedding of
\* the query or the vector search may fail, and so may FetchAllChunks for
\* some base paths when the candidates are built and when the files are put
\* together again; sort.Slice leaves candidates of equal hybrid score in any
\* order
SearchWithAggregationOnStore ==
    /\ query = NoQuery
    /\ \E points \in QueryStores, config \in QueryConfigs, searchFails \in BOOLEAN,
          failBuild \in SUBSET QueryFiles, failRecon \in SUBSET QueryFiles :
         \E rawResults \in SearchResultsOf(points) :
           LET candidates == candidatesBuilt(rawResults, failBuild)
               filtered == Filtered(candidates, config)
           IN  /\ \E sorted \in Orderings(filtered) :
                     /\ \A i, j \in DOMAIN sorted :
                           i < j => HybridScore(sorted[i], config)
                                       >= HybridScore(sorted[j], config)
                     /\ LET selections ==
                                IF searchFails \/ rawResults = {} \/ candidates = {}
                                   \/ filtered = {}
                                THEN <<>>
                                ELSE selectFilesWithinBudget(sorted, config)
                        IN  query' = [op |-> "SearchWithAggregation",
                                      points |-> points, config |-> config,
                                      searchFails |-> searchFails,
                                      failBuild |-> failBuild, failRecon |-> failRecon,
                                      raw |-> rawResults, sorted |-> sorted,
                                      err |-> searchFails,
                                      results |-> reconstructFiles(points, selections,
                                                                   failRecon, config)]
               /\ UNCHANGED <<envVars, loop, agentStore, search, call, metaFiles,
                              coll, runs, scan, fileHashes, budget, hist, pool, tracker>>

\* ----------------------------------------------------------- specifications
Environment ==
    \/ \E p \in Paths, c \in Contents \cup {Absent} : Commit(p, c)
    \/ \E b \in GitBranches : Checkout(b)

\* a step of the worker pool of a run
PoolStep ==
    \E c \in Callers :
        \/ indexWorker(c)
        \/ indexFileOrChunks(c)

\* a step of a run of IndexIncremental
RunStep ==
    \/ \E c \in Callers :
          \/ IndexIncremental(c)
          \/ IncrementalFile(c)
          \/ IncrementalSave(c)
    \/ PoolStep

\* the gateway: the scanner and the HTTP handlers run concurrently
Next ==
    \/ Environment
    \/ handleGitHubWebhook(FALSE)
    \/ handleReindexRepo(FALSE)
    \/ scanRepo
    \/ checkBranchForChanges(FALSE)
    \/ RunStep
    \/ HandlerReturn
    \/ ScannerReturn

Spec == Init /\ [][Next]_vars

\* the gateway answering one reindex request after the other
NextSeq ==
    \/ Environment
    \/ handleGitHubWebhook(TRUE)
    \/ handleReindexRepo(TRUE)
    \/ RunStep
    \/ HandlerReturn

SpecSeq == Init /\ [][NextSeq]_vars

\* the command line indexer (cmd/index), run again and again
NextCli ==
    \/ Environment
    \/ NewIndexer
    \/ IndexRepository
    \/ PoolStep
    \/ CliReturn

SpecCli == Init /\ [][NextCli]_vars

\* the gateway with the loop of the scanner, its ticker and its two ways to
\* stop, and the reindex endpoint
NextScan ==
    \/ Environment
    \/ ForeignMetadata
    \/ handleReindexRepo(FALSE)
    \/ Tick
    \/ scanLoop
    \/ checkBranchForChanges(FALSE)
    \/ RunStep
    \/ HandlerReturn
    \/ ScannerReturn
    \/ Stop
    \/ Cancel

SpecScan == Init /\ [][NextScan]_vars

\* the gateway with the file system calls of SaveMetadata as the other
\* goroutines see them
NextMeta ==
    \/ Environment
    \/ handleGitHubWebhook(FALSE)
    \/ handleReindexRepo(FALSE)
    \/ scanRepo
    \/ checkBranchForChanges(FALSE)
    \/ \E c \in Callers :
          \/ IndexIncremental(c)
          \/ IncrementalFile(c)
          \/ SaveMetadataOpen(c)
          \/ SaveMetadataWrite(c)
    \/ PoolStep
    \/ HandlerReturn
    \/ ScannerReturn

SpecMeta == Init /\ [][NextMeta]_vars

\* stores opened and metadata saved for the names a repository and a branch
\* may have
NextNames ==
    \/ NewQdrantStoreWithBranch
    \/ SaveBranchMetadata
    \/ DamageMetadata

SpecNames == Init /\ [][NextNames]_vars

\* one query of a store with any configuration
NextSearch ==
    \/ SetSearchConfig
    \/ SearchWithAggregation

SpecSearch == Init /\ [][NextSearch]_vars

\* the sizes chunkByLines is called with: those ChunkFile passes, and sizes
\* under which a window holds more lines than the back-step goes back
WindowSizes ==
    {[maxSize |-> charsForTokens(MaxTokensPerChunk),
      overlap |-> charsForTokens(OverlapTokens)],
     [maxSize |-> 1300, overlap |-> 50]}

\* chunkByLines is entered, lines 224-229: no chunk yet, i = 0
chunkByLinesEnter ==
    /\ call = NoCall
    /\ \E content \in FileTexts, sizes \in WindowSizes :
           /\ call' = [op |-> "chunkByLines", pc |-> "loop", lines |-> content,
                       maxSize |-> sizes.maxSize, overlap |-> sizes.overlap,
                       i |-> 0, chunkIndex |-> 0, chunks |-> <<>>,
                       windows |-> <<>>]
           /\ UNCHANGED <<envVars, loop, agentStore, search, query, metaFiles, coll,
                          runs, scan, fileHashes, budget, hist, pool, tracker>>

\* one turn of the outer loop of chunkByLines, lines 229-294
chunkByLinesTurn ==
    /\ call.op = "chunkByLines"
    /\ call.pc = "loop"
    /\ call.i < Len(call.lines)
    /\ LET w == chunkByLinesWindow(call.lines, call.i, call.chunkIndex,
                                   call.maxSize, call.overlap)
       IN  call' = [call EXCEPT !.i = w.i,
                                !.chunkIndex = @ + Len(w.chunks),
                                !.chunks = @ \o w.chunks,
                                !.windows = Append(@, call.i)]
    /\ UNCHANGED <<envVars, loop, agentStore, search, query, metaFiles, coll,
                   runs, scan, fileHashes, budget, hist, pool, tracker>>

\* the loop of chunkByLines ends and the chunks are returned, lines 229, 296
chunkByLinesReturn ==
    /\ call.op = "chunkByLines"
    /\ call.pc = "loop"
    /\ call.i >= Len(call.lines)
    /\ call' = [call EXCEPT !.pc = "returned"]
    /\ UNCHANGED <<envVars, loop, agentStore, search, query, metaFiles, coll,
                   runs, scan, fileHashes, budget, hist, pool, tracker>>

\* ------------------------------------------------------------ worker pool
\* indexFilesParallel with its goroutines, lines 176-237.  A job is its
\* number in the slice; indexFileOrChunks returns nil or an error.

\* the most jobs of a call
MaxJobs == 4
\* the most workers: GetWorkerCount gives between 3 and 8 of them
MaxWorkers == 4

\* an indexWorker that counts the jobs that were indexed only
countIndexedOnly(stats, failed) ==
    IF failed THEN stats ELSE [stats EXCEPT !.Indexed = @ + 1]

\* indexWorker, lines 217-224: stats.incErrors() or stats.incIndexed()
countJob(stats, failed) ==
    IF failed THEN [stats EXCEPT !.Errors = @ + 1]
    ELSE [stats EXCEPT !.Indexed = @ + 1]

\* lines 176-197: no job, the empty statistics are returned; else the channel
\* is made with room for every job and the workers are started
poolStart ==
    /\ pool = NoPool
    /\ \E n \in 0..MaxJobs, workerCount \in WorkerCount..MaxWorkers :
           pool' = [pc |-> IF n = 0 THEN "returned" ELSE "feed",
                    jobs |-> n, cap |-> n, workerCount |-> workerCount,
                    worker |-> [w \in 1..(IF n = 0 THEN 0 ELSE workerCount) |->
                                   [pc |-> "receive", job |-> 0]],
                    chan |-> <<>>, closed |-> FALSE, fed |-> 0,
                    wg |-> IF n = 0 THEN 0 ELSE workerCount,
                    stats |-> [Indexed |-> 0, Errors |-> 0],
                    taken |-> [j \in 1..n |-> 0]]
    /\ UNCHANGED <<envVars, loop, agentStore, search, call, query, metaFiles, coll,
                   runs, scan, fileHashes, budget, hist, tracker>>

\* lines 199-202: the next job is sent, which needs room in the channel;
\* after the last one the channel is closed
poolFeed ==
    /\ pool.pc = "feed"
    /\ IF pool.fed < pool.jobs
       THEN /\ Len(pool.chan) < pool.cap
            /\ pool' = [pool EXCEPT !.chan = Append(@, pool.fed + 1),
                                    !.fed = @ + 1]
       ELSE pool' = [pool EXCEPT !.closed = TRUE, !.pc = "wait"]
    /\ UNCHANGED <<envVars, loop, agentStore, search, call, query, metaFiles, coll,
                   runs, scan, fileHashes, budget, hist, tracker>>

\* line 216, for job := range jobs: a worker receives the job at the head of
\* the channel
workerReceive ==
    /\ pool.pc \in {"feed", "wait"}
    /\ \E w \in DOMAIN pool.worker :
           /\ pool.worker[w].pc = "receive"
           /\ pool.chan # <<>>
           /\ pool' = [pool EXCEPT !.worker[w] = [pc |-> "job", job |-> Head(pool.chan)],
                                   !.chan = Tail(@),
                                   !.taken[Head(pool.chan)] = @ + 1]
           /\ UNCHANGED <<envVars, loop, agentStore, search, call, query, metaFiles,
                          coll, runs, scan, fileHashes, budget, hist, tracker>>

\* lines 217-235: indexFileOrChunks returns and the job is counted
workerFinish ==
    /\ pool.pc \in {"feed", "wait"}
    /\ \E w \in DOMAIN pool.worker, failed \in BOOLEAN :
           /\ pool.worker[w].pc = "job"
           /\ pool' = [pool EXCEPT !.worker[w] = [pc |-> "receive", job |-> 0],
                                   !.stats = countJob(@, failed)]
           /\ UNCHANGED <<envVars, loop, agentStore, search, call, query, metaFiles,
                          coll, runs, scan, fileHashes, budget, hist, tracker>>

\* the channel is closed and empty: the range ends, the worker returns and
\* wg.Done() runs, lines 191-194
workerExit ==
    /\ pool.pc \in {"feed", "wait"}
    /\ \E w \in DOMAIN pool.worker :
           /\ pool.worker[w].pc = "receive"
           /\ pool.chan = <<>>
           /\ pool.closed
           /\ pool' = [pool EXCEPT !.worker[w] = [pc |-> "exit", job |-> 0],
                                   !.wg = @ - 1]
           /\ UNCHANGED <<envVars, loop, agentStore, search, call, query, metaFiles,
                          coll, runs, scan, fileHashes, budget, hist, tracker>>

\* lines 204-207: wg.Wait() returns when every worker is done
poolWait ==
    /\ pool.pc = "wait"
    /\ pool.wg = 0
    /\ pool' = [pool EXCEPT !.pc = "returned"]
    /\ UNCHANGED <<envVars, loop, agentStore, search, call, query, metaFiles, coll,
                   runs, scan, fileHashes, budget, hist, tracker>>

\* ------------------------------------------------------------ cost tracker
\* CostTracker of the telemetry package.  Tokens are counted in thousands and
\* money in ten-thousandths of a dollar, in which the prices are whole
\* numbers; the alert threshold only writes to the log.  A day is a number.

\* the most calls of RecordRequest
MaxRequests == 3
\* the most midnights that pass
MaxDays == 1

TrackerCallers == {"t1", "t2"}

\* AnthropicPricing: the price of a thousand tokens, input and output
AnthropicPricing ==
    [m \in {"claude-opus-4.5", "claude-sonnet-4.5"} |->
        IF m = "claude-opus-4.5"
        THEN [InputPricePerMToken |-> 50, OutputPricePerMToken |-> 250]
        ELSE [InputPricePerMToken |-> 30, OutputPricePerMToken |-> 150]]

\* the limits NewCostTracker is given: $0.10 a day and 100000 tokens a
\* query, or $100 a day and 10000 tokens a query
TrackerLimits ==
    {[dailyMaxUSD |-> 1000, perQueryMaxTokens |-> 100],
     [dailyMaxUSD |-> 1000000, perQueryMaxTokens |-> 10]}

\* the requests recorded
Requests ==
    {[model |-> "gpt-4", inputTokens |-> 1, outputTokens |-> 1, cachedTokens |-> 0],
     [model |-> "claude-sonnet-4.5", inputTokens |-> 10, outputTokens |-> 5,
      cachedTokens |-> 0],
     [model |-> "claude-sonnet-4.5", inputTokens |-> 6, outputTokens |-> 3,
      cachedTokens |-> 0],
     [model |-> "claude-opus-4.5", inputTokens |-> 1, outputTokens |-> 0,
      cachedTokens |-> 2]}

\* checkDailyReset, lines 146-160
checkDailyReset(ct, today) ==
    IF today # ct.lastResetDate
    THEN [ct EXCEPT !.dailySpend = 0, !.dailyInputTokens = 0,
                    !.dailyOutputTokens = 0, !.dailyCachedTokens = 0,
                    !.dailyRequestCount = 0, !.lastResetDate = today]
    ELSE ct

\* the cost of a request: cached tokens at a tenth of the input price
totalCost(pricing, req) ==
    (req.cachedTokens * pricing.InputPricePerMToken) \div 10
        + req.inputTokens * pricing.InputPricePerMToken
        + req.outputTokens * pricing.OutputPricePerMToken

\* a RecordRequest that counts the request before it checks it
RecordRequestCountsFirst(ct0, today, req) ==
    LET ct == checkDailyReset(ct0, today)
        counted == [ct EXCEPT !.dailyRequestCount = @ + 1,
                              !.totalRequestCount = @ + 1]
    IN  IF req.model \notin DOMAIN AnthropicPricing
        THEN [ct |-> counted, cost |-> 0, err |-> "unknown model"]
        ELSE [ct |-> counted, cost |-> 0, err |-> "daily cost limit exceeded"]

\* RecordRequest, lines 76-143, between ct.mu.Lock() and the unlock: the
\* CostTracker it leaves, the cost and the error it returns
RecordRequest(ct0, today, req) ==
    LET ct == checkDailyReset(ct0, today)
        cost == totalCost(AnthropicPricing[req.model], req)
        totalTokens == req.inputTokens + req.outputTokens + req.cachedTokens
    IN  IF req.model \notin DOMAIN AnthropicPricing
        THEN [ct |-> ct, cost |-> 0, err |-> "unknown model"]
        ELSE IF ct.dailySpend + cost > ct.dailyMaxUSD
        THEN [ct |-> ct, cost |-> 0, err |-> "daily cost limit exceeded"]
        ELSE IF totalTokens > ct.perQueryMaxTokens
        THEN [ct |-> ct, cost |-> 0, err |-> "per-query token limit exceeded"]
        ELSE [ct |-> [ct EXCEPT !.dailySpend = @ + cost,
                                !.dailyInputTokens = @ + req.inputTokens,
                                !.dailyOutputTokens = @ + req.outputTokens,
                                !.dailyCachedTokens = @ + req.cachedTokens,
                                !.dailyRequestCount = @ + 1,
                                !.totalSpend = @ + cost,
                                !.totalInputTokens = @ + req.inputTokens,
                                !.totalOutputTokens = @ + req.outputTokens,
                                !.totalCachedTokens = @ + req.cachedTokens,
                                !.totalRequestCount = @ + 1],
              cost |-> cost, err |-> "none"]

\* NewCostTracker, lines 65-73
NewCostTracker ==
    /\ tracker = NoTracker
    /\ \E limits \in TrackerLimits :
           tracker' =
               [made |-> TRUE, now |-> 0, mu |-> "free", calls |-> 0, recorded |-> 0,
                ct |-> [dailyMaxUSD |-> limits.dailyMaxUSD,
                        perQueryMaxTokens |-> limits.perQueryMaxTokens,
                        dailySpend |-> 0, dailyInputTokens |-> 0,
                        dailyOutputTokens |-> 0, dailyCachedTokens |-> 0,
                        dailyRequestCount |-> 0, lastResetDate |-> 0,
                        totalSpend |-> 0, totalInputTokens |-> 0,
                        totalOutputTokens |-> 0, totalCachedTokens |-> 0,
                        totalRequestCount |-> 0],
                caller |-> [c \in TrackerCallers |->
                               [pc |-> "idle", req |-> <<>>, cost |-> 0,
                                err |-> "none"]]]
    /\ UNCHANGED <<envVars, loop, agentStore, search, call, query, metaFiles, coll,
                   runs, scan, fileHashes, budget, hist, pool>>

\* midnight passes: time.Now() gives the next day
Midnight ==
    /\ tracker.made
    /\ tracker.now < MaxDays
    /\ tracker' = [tracker EXCEPT !.now = @ + 1]
    /\ UNCHANGED <<envVars, loop, agentStore, search, call, query, metaFiles, coll,
                   runs, scan, fileHashes, budget, hist, pool>>

\* a goroutine calls RecordRequest and comes to ct.mu.Lock(), line 77
RecordRequestCall ==
    /\ tracker.made
    /\ tracker.calls < MaxRequests
    /\ \E c \in TrackerCallers, req \in Requests :
           /\ tracker.caller[c].pc = "idle"
           /\ tracker' = [tracker EXCEPT
                  !.calls = @ + 1,
                  !.caller[c] = [pc |-> "lock", req |-> req, cost |-> 0,
                                 err |-> "none"]]
    /\ UNCHANGED <<envVars, loop, agentStore, search, call, query, metaFiles, coll,
                   runs, scan, fileHashes, budget, hist, pool>>

\* ct.mu.Lock() returns: no other goroutine holds the mutex
RecordRequestLock ==
    /\ tracker.made
    /\ tracker.mu = "free"
    /\ \E c \in TrackerCallers :
           /\ tracker.caller[c].pc = "lock"
           /\ tracker' = [tracker EXCEPT !.mu = c, !.caller[c].pc = "locked"]
    /\ UNCHANGED <<envVars, loop, agentStore, search, call, query, metaFiles, coll,
                   runs, scan, fileHashes, budget, hist, pool>>

\* lines 80-143: the body of RecordRequest under the mutex, and the unlock
RecordRequestBody ==
    /\ tracker.made
    /\ \E c \in TrackerCallers :
           /\ tracker.caller[c].pc = "locked"
           /\ tracker.mu = c
           /\ LET res == RecordRequest(tracker.ct, tracker.now, tracker.caller[c].req)
              IN  tracker' = [tracker EXCEPT
                      !.ct = res.ct,
                      !.mu = "free",
                      !.recorded = IF res.err = "none" THEN @ + 1 ELSE @,
                      !.caller[c] = [pc |-> "idle", req |-> tracker.caller[c].req,
                                     cost |-> res.cost, err |-> res.err]]
    /\ UNCHANGED <<envVars, loop, agentStore, search, call, query, metaFiles, coll,
                   runs, scan, fileHashes, budget, hist, pool>>

\* GetDailyStats, lines 163-178: under the mutex, it resets the day as well
GetDailyStats ==
    /\ tracker.made
    /\ tracker.mu = "free"
    /\ tracker.now # tracker.ct.lastResetDate
    /\ tracker' = [tracker EXCEPT !.ct = checkDailyReset(@, tracker.now)]
    /\ UNCHANGED <<envVars, loop, agentStore, search, call, query, metaFiles, coll,
                   runs, scan, fileHashes, budget, hist, pool>>

\* one call of a function of the chunker or of the retriever
NextCalls ==
    \/ ChunkFileCall
    \/ extractBasePathCall
    \/ calculateAdaptiveThresholdCall
    \/ applyHybridScoringCall

SpecCalls == Init /\ [][NextCalls]_vars

\* one call of chunkByLines, turn by turn; the goroutine that runs the loop
\* is never blocked in it and the Go scheduler keeps running it, so a turn or
\* the return that can be taken is taken
NextWindows ==
    \/ chunkByLinesEnter
    \/ chunkByLinesTurn
    \/ chunkByLinesReturn

SpecWindows ==
    /\ Init
    /\ [][NextWindows]_vars
    /\ WF_vars(chunkByLinesTurn)
    /\ WF_vars(chunkByLinesReturn)

\* one call of indexFilesParallel.  Its goroutines are scheduled fairly by
\* the Go runtime: a goroutine that can take a step does so in the end; the
\* calls of the store made for a job return
NextPool ==
    \/ poolStart
    \/ poolFeed
    \/ workerReceive
    \/ workerFinish
    \/ workerExit
    \/ poolWait

SpecPool ==
    /\ Init
    /\ [][NextPool]_vars
    /\ WF_vars(poolFeed)
    /\ WF_vars(workerReceive)
    /\ WF_vars(workerFinish)
    /\ WF_vars(workerExit)
    /\ WF_vars(poolWait)

\* the gateway with the scanner left running: it is neither stopped nor
\* cancelled, and the metadata is written by index runs only.  The ticker
\* keeps ticking, and the goroutine of the scanner and those of the runs are
\* scheduled fairly: a step that stays possible is taken in the end
NextLive ==
    \/ Environment
    \/ handleReindexRepo(FALSE)
    \/ Tick
    \/ scanLoop
    \/ checkBranchForChanges(FALSE)
    \/ RunStep
    \/ HandlerReturn
    \/ ScannerReturn

SpecLive ==
    /\ Init
    /\ [][NextLive]_vars
    /\ WF_vars(Tick)
    /\ WF_vars(scanLoop)
    /\ WF_vars(checkBranchForChanges(FALSE))
    /\ WF_vars(RunStep)
    /\ WF_vars(HandlerReturn)
    /\ WF_vars(ScannerReturn)

\* a CostTracker used by two goroutines over the days
NextCost ==
    \/ NewCostTracker
    \/ Midnight
    \/ RecordRequestCall
    \/ RecordRequestLock
    \/ RecordRequestBody
    \/ GetDailyStats

SpecCost == Init /\ [][NextCost]_vars

\* one query of a collection, with calls that fail
NextQuery ==
    \/ SearchWithAggregationOnStore

SpecQuery == Init /\ [][NextQuery]_vars

\* ------------------------------------------------------------------ claims
\* C1: with runs made one after the other, a run of IndexIncremental that
\* reads the commit an earlier successful run on the same branch has read is a
\* no-op: it makes no embedding, upsert or delete call and returns success.
C1_UnchangedCommitIsNoOp ==
    \A c \in Callers :
        runs[c].again =>
            /\ runs[c].pc = "done"
            /\ runs[c].calls = 0
            /\ runs[c].result = "ok"

C1_Witness ==
    \E c \in Callers :
        /\ runs[c].again
        /\ runs[c].pc = "done"
        /\ hist.okCommit[runs[c].branch] = branchHead[runs[c].branch]

\* C2: once an IndexIncremental run has gone through a changed file that is
\* gone from disk and its DeleteFile call has succeeded, no record of the file
\* remains in the collection: the scroll on its path is empty and search
\* returns none of its chunks.
C2_DeletedFileLeavesNoRecord ==
    \A c \in Callers :
        \A path \in runs[c].deleted :
            /\ FetchAllChunks(coll[StoreOf(runs[c])], path) = {}
            /\ \A pt \in Search(coll[StoreOf(runs[c])]) :
                  extractBasePath(pt.file_path) # path

\* C3: when an index run has indexed a file, the scroll on the base path of
\* the file returns the chunks of that version and no other: the
\* chunk_index values are 0..K-1 for the K chunks written, no record of an
\* earlier version is among them.
C3_ScrollReturnsLatestChunks ==
    \A c \in Callers :
        \A i \in 1..Len(runs[c].jobs) :
            LET job == runs[c].jobs[i]
                chunks == ChunkFile(job.Content)
                recs == FetchAllChunks(coll[StoreOf(runs[c])],
                                       SplitBasePath(ChunkPathOf(job, 1)))
                mine == {pt \in recs : extractBasePath(pt.file_path) = job.RelPath}
            IN  (runs[c].pc = "done" /\ job.RelPath \in runs[c].succeeded) =>
                    /\ {pt.chunk_index : pt \in mine} = 0..(Len(chunks) - 1)
                    /\ Cardinality(mine) = Len(chunks)
                    /\ \A pt \in mine : pt.content.ver = job.Content

\* C4: once the workers of a run have drained, every chunk of a job that
\* succeeded is in the collection and no chunk of a job that failed is.
C4_CollectionReflectsSuccessfulJobs ==
    \A c \in Callers :
        \A i \in 1..Len(runs[c].jobs) :
            LET job == runs[c].jobs[i]
                chunks == ChunkFile(job.Content)
                written == {k \in 1..Len(chunks) :
                              Point(ChunkPathOf(job, k), chunks[k].Content)
                                  \in coll[StoreOf(runs[c])]}
            IN  runs[c].pc \in {"save", "done"} =>
                    /\ job.RelPath \in runs[c].succeeded => written = 1..Len(chunks)
                    /\ job.RelPath \in runs[c].failed => written = {}

\* C5: every record in the collection of a branch has the content the file
\* has at some commit in the history of that branch.
C5_CollectionHoldsOwnBranchOnly ==
    LET RECURSIVE Ancestors(_)
        Ancestors(k) == IF k = 0 THEN {} ELSE {k} \cup Ancestors(commits[k].parent)
    IN  \A b \in GitBranches :
            CollectionName(b) \in DOMAIN coll =>
                \A pt \in Search(coll[CollectionName(b)]) :
                    \E k \in Ancestors(branchHead[b]) :
                        commits[k].tree[extractBasePath(pt.file_path)] = pt.content.ver

\* C6: at most one IndexIncremental run is executing for a branch at any time.
C6_RunsOfABranchAreSerialized ==
    \A c1, c2 \in Callers :
        (/\ c1 # c2
         /\ runs[c1].pc \in {"files", "work", "save"}
         /\ runs[c2].pc \in {"files", "work", "save"})
            => runs[c1].branch # runs[c2].branch

\* C7: a run of IndexIncremental that has come to the end of its file
\* processing either saves metadata with the commit it read at its start,
\* whatever the errors it has counted, and returns success, or fails to save
\* and returns an error.
C7_SavesStartCommit ==
    [][\A c \in Callers :
          (runs[c].pc = "save" /\ runs'[c].pc # "save") =>
              \/ /\ runs'[c].result = "ok"
                 /\ GetMetadataPath(runs[c].branch) \in DOMAIN metaFiles'
                 /\ metaFiles'[GetMetadataPath(runs[c].branch)].Branch = runs[c].branch
                 /\ metaFiles'[GetMetadataPath(runs[c].branch)].CommitSHA
                        = runs[c].currentCommit
              \/ /\ runs'[c].result = "err"
                 /\ metaFiles' = metaFiles]_vars

C7_Witness ==
    \E c \in Callers :
        /\ runs[c].pc = "done"
        /\ runs[c].saved = "ok"
        /\ runs[c].errors > 0
        /\ runs[c].currentCommit # branchHead[runs[c].branch]

\* C8: when the workers of a run have drained, every job has been attempted
\* and has ended as indexed or as failed, the errors counted are the failed
\* jobs, one each, and the run returns an error only when the metadata could
\* not be saved.
C8_FailedJobCountsOnceAndRunGoesOn ==
    \A c \in Callers :
        /\ runs[c].pc \in {"save", "done"} =>
              /\ runs[c].failed \cup runs[c].succeeded = JobPaths(runs[c].jobs)
              /\ runs[c].failed \cap runs[c].succeeded = {}
              /\ runs[c].stats.Errors = Cardinality(runs[c].failed)
              /\ runs[c].stats.Indexed = Cardinality(runs[c].succeeded)
        /\ (runs[c].pc = "done" /\ runs[c].result = "err") => runs[c].saved = "fail"

C8_Witness ==
    \E c \in Callers :
        /\ runs[c].pc = "done"
        /\ runs[c].failed # {}
        /\ runs[c].succeeded # {}
        /\ runs[c].result = "ok"

\* C9: a tick of the scanner checks the known branches; when it checks a
\* branch it invokes a reindex of it if and only if the commit of the branch
\* differs from the commit recorded in its metadata, and a branch whose commit
\* is the recorded one changes neither a run, the store nor the metadata.
C9_ScannerReindexesIffCommitDiffers ==
    [][/\ (scan = <<>> /\ scan' # <<>>) => scan' = GetKnownBranches
       /\ (/\ scan # <<>>
           /\ runs["scanner"].pc = "idle"
           /\ <<scan, runs["scanner"]>>' # <<scan, runs["scanner"]>>) =>
              IF LoadMetadata(Head(scan)).CommitSHA # branchHead[Head(scan)]
              THEN /\ runs'["scanner"].pc = "check"
                   /\ runs'["scanner"].branch = Head(scan)
              ELSE /\ runs' = runs
                   /\ coll' = coll
                   /\ metaFiles' = metaFiles
                   /\ scan' = Tail(scan)]_vars

C9_Witness ==
    /\ runs["scanner"].pc = "check"
    /\ Len(scan) < Len(GetKnownBranches)
    /\ LoadMetadata(runs["scanner"].branch).CommitSHA
           # branchHead[runs["scanner"].branch]

\* C10: the scanner checks, and starts a run for, only branches that have
\* metadata, the metadata of a branch is first saved by a run the scanner did
\* not start, and without metadata the scanner does nothing.
C10_ScannerOnlyScansKnownBranches ==
    /\ \A i \in 1..Len(scan) : GetMetadataPath(scan[i]) \in DOMAIN metaFiles
    /\ runs["scanner"].pc # "idle" =>
           GetMetadataPath(runs["scanner"].branch) \in DOMAIN metaFiles
    /\ \A f \in DOMAIN hist.creator : hist.creator[f] # "scanner"
    /\ metaFiles = <<>> => (scan = <<>> /\ runs["scanner"].pc = "idle")

C10_Witness ==
    /\ runs["scanner"].pc = "work"
    /\ hist.creator[GetMetadataPath(runs["scanner"].branch)] \in {"endpoint", "webhook"}
    /\ DOMAIN metaFiles # {GetMetadataPath(b) : b \in GitBranches}

\* C11: once the stop channel of the scanner is closed or its context is
\* done, the tick in progress goes on as it would have without: a job of the
\* run the tick has started fails only when one of its calls fails on its
\* own; and at the tick boundary the loop starts no other scan.
C11_StopLetsTickFinishAndStartsNoScan ==
    [][(loop.stopChan = "closed" \/ loop.ctx = "done") =>
          /\ runs'["scanner"].stats.Errors > runs["scanner"].stats.Errors
                 => budget' < budget
          /\ (scan = <<>> /\ runs["scanner"].pc = "idle" /\ loop.pc = "run")
                 => ~(loop.ticker /\ ~loop'.ticker)]_vars

\* C12: once the context of a run is done, no worker takes a job off the
\* queue: the jobs that were waiting then are never started.
C12_CancelledRunStartsNoJob ==
    [][\A c \in Callers :
          (Cancelled(c) /\ runs[c].pc = "work") => runs'[c].chan = runs[c].chan]_vars

\* C13: a failure of the check of one branch is confined to the branch: the
\* loop of the scanner keeps running, and the tick goes on to the next branch,
\* after a check that starts no run and after a run that has returned.
C13_ScanFailureIsConfined ==
    [][/\ (/\ scan # <<>>
           /\ loop.pc = "run"
           /\ runs["scanner"].pc = "idle"
           /\ <<scan, runs["scanner"], loop>>' # <<scan, runs["scanner"], loop>>)
          => /\ loop'.pc = "run"
             /\ scan' = Tail(scan) \/ runs'["scanner"].pc = "check"
       /\ (runs["scanner"].pc = "done" /\ runs'["scanner"].pc = "idle")
          => /\ loop'.pc = "run"
             /\ scan' = Tail(scan)]_vars

\* C14: a goroutine that loads the metadata of a branch, or lists the known
\* branches, while another saves metadata finds every metadata file whole,
\* the one saved before or the new one: no load fails to parse, and every
\* metadata file gives its branch to the list.
C14_LoadSeesWholeMetadata ==
    /\ \A c \in Callers :
          runs[c].pc = "check" => LoadMetadata(runs[c].branch) # Unparsable
    /\ (scan # <<>> /\ runs["scanner"].pc = "idle")
          => LoadMetadata(Head(scan)) # Unparsable
    /\ scan = <<>> => Len(GetKnownBranches) = Cardinality(DOMAIN metaFiles)

\* C15: once a reindex of a branch has completed, the vector store of the
\* agent is the collection of that branch, so that the answers that follow
\* read what the reindex has written.
C15_AgentStoreFollowsReindexedBranch ==
    \A c \in Callers :
        (runs[c].kind = "incremental" /\ runs[c].pc = "done" /\ runs[c].result = "ok")
            => agentStore = CollectionName(runs[c].branch)

\* C16: for every path p and every content of it, on any collection:
\* DeleteFile(p) followed by the IndexFile of each chunk record of p leaves
\* under p exactly the records supplied, each stored with base_path p, so that
\* the scroll on p returns them all and a later DeleteFile(p) removes them all.
C16_DeleteThenUpsertsLeaveTheChunks ==
    \A name \in DOMAIN coll : \A p \in Paths : \A v \in Contents :
        LET job == [RelPath |-> p, Content |-> v]
            chunks == ChunkFile(v)
            RECURSIVE Upserts(_, _)
            Upserts(points, k) ==
                IF k > Len(chunks) THEN points
                ELSE Upserts(IndexFile(points, ChunkPathOf(job, k), chunks[k].Content),
                             k + 1)
            after == Upserts(DeleteFile(coll[name], p), 1)
            supplied == {Point(ChunkPathOf(job, k), chunks[k].Content) :
                            k \in 1..Len(chunks)}
        IN  /\ \A pt \in supplied : pt.base_path = p
            /\ {pt \in after : extractBasePath(pt.file_path) = p} = supplied
            /\ FetchAllChunks(after, p) = supplied
            /\ DeleteFile(after, p) \cap supplied = {}

\* C17: the stores of two distinct pairs of repository and branch are never
\* bound to the same collection.
C17_OneCollectionPerRepoAndBranch ==
    \A s1, s2 \in hist.stores :
        <<s1.repoName, s1.branch>> # <<s2.repoName, s2.branch>>
            => s1.collectionName # s2.collectionName

\* C18: GetKnownBranches returns exactly the branches metadata has been
\* saved for and is still readable for, each under the name it was saved
\* with, and none when nothing has been saved.
C18_KnownBranchesAreTheSavedOnes ==
    /\ {GetKnownBranches[i] : i \in 1..Len(GetKnownBranches)} = hist.saved
    /\ Len(GetKnownBranches) = Cardinality(hist.saved)

C20_SelectionEmptyOnlyUnderTheFloor ==
    (search.done /\ search.raw # {}) =>
        \/ search.selections # <<>>
        \/ /\ \A c \in buildFileCandidates(search.raw) :
                  c.BestChunkScore < search.config.MinAbsoluteScore
           /\ Cardinality(buildFileCandidates(search.raw))
                  < search.config.MinFilesAfterThreshold

\* C25: a text of at most MaxTokensWholeFile tokens, counted as the number of
\* its characters over 4 rounded up, gives in every language one chunk, of
\* index 0, from line 1 to the last line of the text, whose content is the
\* text.
C25_SmallFileIsOneWholeChunk ==
    (/\ call.op = "ChunkFile"
     /\ (TextChars(call.content) + 3) \div 4 <= MaxTokensWholeFile)
    => /\ Len(call.chunks) = 1
       /\ call.chunks[1].ChunkIndex = 0
       /\ call.chunks[1].StartLine = 1
       /\ call.chunks[1].EndLine = Len(call.content)
       /\ call.chunks[1].Content.Sep = "between"
       /\ call.chunks[1].Content.Lines = [i \in 1..Len(call.content) |-> i]
       /\ call.chunks[1].Content.Chars = TextChars(call.content)

C25_Witness ==
    /\ call.op = "ChunkFile"
    /\ call.language = "go"
    /\ TextChars(call.content) = 4 * MaxTokensWholeFile
    /\ Len(call.chunks) = 1

\* C26: in every language and for lines of any length, no chunk ChunkFile
\* returns has more tokens than MaxTokensPerChunk and a hundredth.
C26_NoChunkOverTheTokenLimit ==
    call.op = "ChunkFile" =>
        \A i \in 1..Len(call.chunks) :
            ((call.chunks[i].Content.Chars + 3) \div 4) * 100
                <= MaxTokensPerChunk * 101

\* C27: the chunks ChunkFile returns are numbered from 0 without a gap: the
\* i-th of them, counted from 0, has ChunkIndex i.
C27_ChunkIndexIsDense ==
    call.op = "ChunkFile" =>
        \A i \in 1..Len(call.chunks) : call.chunks[i].ChunkIndex = i - 1

\* C28: when a Go or TypeScript file over the whole-file limit gives more
\* than one chunk, each two chunks that follow one another have a line in
\* common that is longer than 10 characters once trimmed.
C28_AdjacentChunksShareALine ==
    (/\ call.op = "ChunkFile"
     /\ call.language \in {"go", "typescript"}
     /\ (TextChars(call.content) + 3) \div 4 > MaxTokensWholeFile
     /\ Len(call.chunks) > 1)
    => \A i \in 1..(Len(call.chunks) - 1) :
          \E a \in DOMAIN call.chunks[i].Content.Lines,
             b \in DOMAIN call.chunks[i + 1].Content.Lines :
              /\ call.chunks[i].Content.Lines[a] = call.chunks[i + 1].Content.Lines[b]
              /\ call.content[call.chunks[i].Content.Lines[a]].Trim > 10

\* C29: chunking the same path and text again gives the same ChunkIDs, and no
\* two chunks of one call have the same ChunkID.
C29_ChunkIDIsStableAndUnique ==
    call.op = "ChunkFile" =>
        LET again == ChunkFileText(call.filePath, call.content, call.language)
        IN  /\ Len(again) = Len(call.chunks)
            /\ \A i \in 1..Len(again) : again[i].ChunkID = call.chunks[i].ChunkID
            /\ \A i, j \in 1..Len(call.chunks) :
                  i # j => call.chunks[i].ChunkID # call.chunks[j].ChunkID

\* C30: for every path of a file of the repository and every chunk index,
\* the base path taken out of path#chunk<index> is the path, and the chunk
\* index taken out of it is the index.
C30_ChunkPathGivesBackPathAndIndex ==
    call.op = "extractBasePath" =>
        /\ call.base = call.basePath
        /\ call.index = call.chunkIndex

\* C22: when there are at least MinFilesAfterThreshold candidates, at least
\* that many of them have a best chunk score that reaches the threshold and
\* pass the filter, whatever the scores: equal ones, ones under
\* MinAbsoluteScore.
C22_MinFilesSurviveTheThreshold ==
    (/\ call.op = "calculateAdaptiveThreshold"
     /\ Cardinality(call.candidates) >= call.config.MinFilesAfterThreshold)
    => /\ call.filtered = {c \in call.candidates : c.BestChunkScore >= call.threshold}
       /\ Cardinality(call.filtered) >= call.config.MinFilesAfterThreshold

C22_Witness ==
    /\ call.op = "calculateAdaptiveThreshold"
    /\ Cardinality(call.candidates) = 3
    /\ call.config.MinFilesAfterThreshold = 2
    /\ \A c \in call.candidates : c.BestChunkScore < call.config.MinAbsoluteScore
    /\ \E c, d \in call.candidates : c # d /\ c.BestChunkScore = d.BestChunkScore
    /\ \E c, d \in call.candidates : c.BestChunkScore # d.BestChunkScore
    /\ Cardinality(call.filtered) >= 2

\* C23: with weights whose sum is 1 within 0.01 and a best chunk score, a
\* keyword score, a path score and top chunk scores all between 0 and 1, the
\* hybrid score before the penalties is between 0 and 1, whether or not the
\* keyword weight has been moved to the semantic weight.
C23_HybridScoreIsBetween0And1 ==
    (/\ call.op = "applyHybridScoring"
     /\ LET weightSum == call.config.SemanticWeight + call.config.KeywordWeight
                            + call.config.PathWeight + call.config.AggregateWeight
        IN  weightSum >= 99 /\ weightSum <= 101)
    => /\ call.HybridScore >= 0
       /\ call.HybridScore <= ScoreSteps * 100 * 100

\* C21: the contents of the files a query returns have together, each
\* counted as the number of its characters over 4 rounded up, no more tokens
\* than MaxTokenBudget - ReserveTokens.
C21_ResultsFitTheTokenBudget ==
    (query.op = "SearchWithAggregation" /\ ~query.err) =>
        LET RECURSIVE Total(_)
            Total(i) == IF i > Len(query.results) THEN 0
                        ELSE (query.results[i].Chars + 3) \div 4 + Total(i + 1)
        IN  Total(1) <= query.config.MaxTokenBudget - query.config.ReserveTokens

C38_LinesAreThoseOfTheContent ==
    call.op = "ChunkFile" =>
        \A i \in 1..Len(call.chunks) :
            LET chunk == call.chunks[i]
            IN  /\ chunk.StartLine = chunk.Content.Lines[1]
                /\ chunk.EndLine = chunk.Content.Lines[Len(chunk.Content.Lines)]

\* C39: when the text has more tokens than MaxTokensWholeFile, every line of
\* it that is not empty is in the content of a chunk ChunkFile returns: whole
\* in one chunk, or all its pieces each in a chunk.
C39_NoLineIsLost ==
    (/\ call.op = "ChunkFile"
     /\ (TextChars(call.content) + 3) \div 4 > MaxTokensWholeFile)
    => \A k \in 1..Len(call.content) :
          call.content[k].Len > 0 =>
              LET RECURSIVE PieceChars(_)
                  PieceChars(i) ==
                      IF i > Len(call.chunks) THEN 0
                      ELSE (IF /\ call.chunks[i].Content.Sep = "none"
                               /\ call.chunks[i].Content.Lines = <<k>>
                            THEN call.chunks[i].Content.Chars ELSE 0)
                           + PieceChars(i + 1)
              IN  \/ \E i \in 1..Len(call.chunks) :
                         /\ call.chunks[i].Content.Sep # "none"
                         /\ \E a \in DOMAIN call.chunks[i].Content.Lines :
                                call.chunks[i].Content.Lines[a] = k
                  \/ PieceChars(1) = call.content[k].Len

\* C40: chunkByLines returns for every text, and each turn of its loop
\* starts at a later line than the turn before it, with empty lines, with
\* lines longer than maxSize and whether or not the back-step for the
\* overlap reaches the first line of the window.
C40_EveryWindowStartsLaterAndTheLoopEnds ==
    /\ [][(call.op = "chunkByLines" /\ call'.op = "chunkByLines"
           /\ call'.pc = "loop")
          => call'.i > call.i]_vars
    /\ (call.op = "chunkByLines") ~> (call.op = "chunkByLines" /\ call.pc = "returned")

C40_Witness ==
    /\ call.op = "chunkByLines"
    /\ call.pc = "returned"
    /\ call.maxSize = charsForTokens(MaxTokensPerChunk)
    /\ Len(call.lines) = 3
    /\ call.lines[1].Len = 0
    /\ call.lines[2].Len > call.maxSize
    /\ call.windows = <<0, 1, 2>>
    /\ Len(call.chunks) > 3

\* C36: when a call of IndexRepository has ended, the Indexer has not kept
\* the hash of the content of a file whose job failed in that call, so that
\* the next call on the same Indexer makes a job of the file again while its
\* content is the same.
C36_FailedFileIsNotMarkedSeen ==
    (runs["cli"].kind = "repository" /\ runs["cli"].pc = "done") =>
        \A i \in 1..Len(runs["cli"].jobs) :
            LET job == runs["cli"].jobs[i]
            IN  job.RelPath \in runs["cli"].failed =>
                    fileHashes[job.RelPath] # job.Content

\* C37: every point of every collection has as language the language the
\* registry gives for the file it was made from, whether the file was stored
\* as one chunk or as several.
C37_ChunkHasTheLanguageOfItsFile ==
    \A n \in DOMAIN coll :
        \A pt \in coll[n] :
            pt.language = detectLanguage(extractBasePath(pt.file_path))

\* C34: in a call of indexFilesParallel no job is received by a worker more
\* than once, the call returns in the end, and when it has returned every job
\* has been received once and indexed + errors is the number of jobs.
C34_EveryJobOnceAndTheCallReturns ==
    /\ [](pool.pc # "idle" =>
             /\ \A j \in 1..pool.jobs : pool.taken[j] <= 1
             /\ pool.pc = "returned" =>
                    /\ \A j \in 1..pool.jobs : pool.taken[j] = 1
                    /\ pool.stats.Indexed + pool.stats.Errors = pool.jobs)
    /\ (pool.pc # "idle") ~> (pool.pc = "returned")

C34_Witness ==
    /\ pool.pc = "returned"
    /\ pool.jobs > pool.workerCount
    /\ pool.stats.Indexed > 0
    /\ pool.stats.Errors > 0

\* C33: when a run of IndexIncremental has ended, every point of the
\* collection that was made from a file the run found changed, indexable and
\* on disk is a chunk of the content the run read: none is of an earlier
\* version of the file.
C33_ChangedFileLeavesNoOldChunk ==
    \A c \in Callers :
        (runs[c].kind = "incremental" /\ runs[c].pc = "done") =>
            \A i \in 1..Len(runs[c].jobs) :
                LET job == runs[c].jobs[i]
                IN  job.RelPath \in runs[c].diff =>
                        \A pt \in coll[StoreOf(runs[c])] :
                            extractBasePath(pt.file_path) = job.RelPath
                                => pt.content.ver = job.Content

\* C32: when a run of IndexIncremental has returned without an error, has
\* counted no failed file and has saved commit C in the metadata of its
\* branch, the points under the base path of every indexable file of C are
\* exactly the chunks of the content the file has at C, and there is no point
\* under the path of a file that C does not have.
C32_CollectionMatchesTheSavedCommit ==
    \A c \in Callers :
        (/\ runs[c].kind = "incremental"
         /\ runs[c].pc = "done"
         /\ runs[c].result = "ok"
         /\ runs[c].saved = "ok"
         /\ runs[c].errors = 0)
        => \A p \in Paths :
              LET v == commits[runs[c].currentCommit].tree[p]
                  job == [RelPath |-> p, Content |-> v]
                  under == {pt \in coll[StoreOf(runs[c])] : pt.base_path = p}
              IN  IF v # Absent /\ isCodeFile(p)
                  THEN under = {Point(ChunkPathOf(job, k), ChunkFile(v)[k].Content) :
                                    k \in 1..Len(ChunkFile(v))}
                  ELSE under = {}

\* C35: with the scanner running, once the commits, the requests and the
\* failed calls have come to an end, the metadata of every known branch
\* comes to record the commit of the branch and keeps it, and from then on
\* the scanner has no index run for the branch.
C35_ScannerCatchesUpAndRests ==
    \A b \in GitBranches :
        <>[](GetMetadataPath(b) \in DOMAIN metaFiles =>
                /\ metaFiles[GetMetadataPath(b)].CommitSHA = branchHead[b]
                /\ runs["scanner"].branch # b)

C35_Witness ==
    /\ runs["scanner"].kind = "incremental"
    /\ runs["scanner"].pc = "done"
    /\ runs["scanner"].saved = "ok"
    /\ runs["scanner"].diff # {}
    /\ runs["scanner"].currentCommit > 1
    /\ runs["scanner"].currentCommit = branchHead[runs["scanner"].branch]
    /\ metaFiles[GetMetadataPath(runs["scanner"].branch)].CommitSHA
           = branchHead[runs["scanner"].branch]

\* C31: a call of RecordRequest that returns an error on the day of the last
\* reset leaves every counter of the CostTracker, daily and total, as it was
\* when the call took the mutex, whatever calls ran before it or wait beside
\* it; and the total number of requests is at all times the number of calls
\* that returned no error.
C31_FailedRequestRecordsNothing ==
    /\ [][\A c \in TrackerCallers :
             (/\ tracker.made
              /\ tracker.caller[c].pc = "locked"
              /\ tracker'.caller[c].pc = "idle"
              /\ tracker'.caller[c].err # "none"
              /\ tracker.now = tracker.ct.lastResetDate)
             => tracker'.ct = tracker.ct]_vars
    /\ [](tracker.made => tracker.ct.totalRequestCount = tracker.recorded)

C31_Witness ==
    /\ tracker.made
    /\ tracker.recorded > 0
    /\ tracker.ct.dailySpend > 0
    /\ tracker.now = tracker.ct.lastResetDate
    /\ tracker.caller["t1"].pc = "idle"
    /\ tracker.caller["t1"].err = "daily cost limit exceeded"
    /\ tracker.caller["t2"].pc = "lock"

====
